---- MODULE Spec2Model ----
(***************************************************************************)
(* relex/gotils.                                                           *)
(*                                                                         *)
(* logger/priv: the buffered TCP log forwarding hook with its background   *)
(* worker, and the unbuffered TCP hook.                                    *)
(* promexporter/promreg: MetricFactory and its sub-creators.               *)
(* promexporter/promext: LazyRWCounterVec.Collect.                         *)
(* channels: SignalAwaitable, Next, AllAwaitables, AnyAwaitables and the   *)
(* WaitGroup awaitable.                                                    *)
(* clock: SafeTimer.                                                       *)
(* cacher: GetFromURLOrDefaultCacheWithCallbackAndClient.                  *)
(* generics: ReduceSlice.                                                  *)
(*                                                                         *)
(* Each package has its own variables, initial predicate and               *)
(* specification; the actions of one package leave the others alone.       *)
(*                                                                         *)
(* Time is abstracted: a timer case of a select may fire whenever the      *)
(* select is waiting; a dial or a write succeeds exactly when the upstream *)
(* is reachable at the moment of the call.                                 *)
(***************************************************************************)
EXTENDS Integers, Sequences, FiniteSets, TLC

\* ---- bounds of the model ----
MaxRecords == 3      \* records submitted through Fire in one behaviour
NProducers == 2      \* application goroutines logging through the buffered hook
NUThreads  == 2      \* goroutines logging through the unbuffered hook
NCallers   == 2      \* goroutines calling the metric factory
MaxCreators == 3     \* the factory and the sub-creators made by AddOrGetPrefix
MaxVecs    == 2      \* metric vectors constructed in one behaviour
MaxAdds    == 2      \* Add(1) calls through the handles of one metric name
MaxCounters == 3     \* counters of the lazy vector
MaxValue   == 2      \* largest value a lazy counter reaches
MaxAwaitables == 4   \* awaitables made in one behaviour
MaxMembers == 3      \* arguments of one AllAwaitables call
NWaiters   == 2      \* goroutines calling Peek and Wait
MaxWgCounter == 2    \* largest value of the WaitGroup counter
MaxResets  == 3      \* Reset calls on the SafeTimer in one behaviour
MaxBodies  == 2      \* different response bodies of the remote URL
MaxCalls   == 3      \* calls of the cacher for the URL in one behaviour
MaxLen     == 3      \* length of the slice given to ReduceSlice
MaxItem    == 2      \* largest item of the slice, and largest initial value

\* ---- program constants ----
ChannelCap == 2      \* make(chan upstreamLog, 100000), scaled down
PanicLevel == 0      \* logrus.PanicLevel
InfoLevel  == 4      \* logrus.InfoLevel

Nil == 0             \* the nil net.Conn

Producers == 1..NProducers
UThreads  == 1..NUThreads
Levels    == {PanicLevel, InfoLevel}
Records   == 1..MaxRecords

VARIABLES
    hookKind,          \* "buffered" | "unbuffered": the hook SetUpstreamEndpoint installed
    uthreads,          \* how many goroutines log through the unbuffered hook
    reachable,         \* is the upstream endpoint accepting connections and data
    logChannel,        \* hook.logChannel: queued records, oldest first
    closing,           \* hook.closing has been closed
    closed,            \* hook.closed has been closed
    upstream,          \* hook.upstream: connection id or Nil
    open,              \* connections dialed and not closed yet
    wpc,               \* position of the worker goroutine run()
    logs,              \* flushLogs: logs[i:], the records of the pass not written yet
    retry,             \* flushLogs: retry
    final,             \* flushLogs was called from flushRemainingLogs
    timerRace,         \* closing was closed while the worker waited in its current select
    ppc,               \* position of each producer inside Fire
    plevel,            \* entry.Level of the record each producer is submitting
    epc,               \* position of the exit handler onExit
    upc,               \* position of each goroutine inside the unbuffered Fire
    uconn,             \* send: local variable upstream of each goroutine
    ulog,              \* send: the record each goroutine is sending
    enq,               \* number of records submitted so far (record ids are 1..enq)
    delivered,         \* records successfully written to the upstream, in write order
    dropped,           \* records given up
    enqAtClosing,      \* enq at the moment closing was closed
    waitAtClosing,     \* wpc at the moment closing was closed
    dialsAfterClosing, \* dial attempts of the worker since closing was closed (2 = two or more)
    downAtEnq,         \* records submitted while the upstream was unreachable
    closeCount,        \* close(hook.closing) calls executed (2 = two or more)
    surfaced,          \* the non-nil errors Fire has returned to its callers
    \* ---- promreg ----
    creators,          \* the metricCreatorBase values: [1] is the factory
    vecs,              \* every vector constructed by New*Vec: name, type, label names
    registry,          \* root.registry: the vectors registered
    byName,            \* root.byName: full name -> vector
    mapLock,           \* root.mapLock: its holder, or 0
    metrics,           \* the metrics of each vector: label values -> value
    cpc,               \* position of each caller inside AddOrGet*
    ccall,             \* the call of each caller: function, full name, all labels
    cvec,              \* the vector the locked section returned to each caller
    chandle,           \* what AddOrGet* returned to each caller
    madeBy,            \* the AddOrGetPrefix call that made each creator
    addsBy,            \* Add(1) calls made through the handles of each full name
    \* ---- promext ----
    lzValue,           \* value of each counter of the LazyRWCounterVec
    chCap,             \* cap(ch) of the running Collect(ch)
    tmp,               \* Collect: the channel tmp
    tmpClosed,         \* Collect: tmp has been closed
    gleft,             \* MetricVec.Collect: the counters not sent to tmp yet
    gpc,               \* position of the goroutine Collect starts
    lpc,               \* position of Collect in its range loop
    lm,                \* Collect: the loop variable m
    outCh,             \* the channel ch given to Collect
    received,          \* what the reader of ch has received from this Collect
    examined,          \* the value Collect read from each counter it tested
    atStart,           \* the counters that were non-zero when Collect was called
    \* ---- channels ----
    aws,               \* the awaitables: kind, parent (Next), members (AllAwaitables)
    signaled,          \* the channel of each awaitable has been closed
    apc,               \* position of the goroutine of each awaitable
    remainingCases,    \* AllAwaitables: remainingCases of each goroutine
    ran,               \* how many times the action of each Next has run
    waiting,           \* the Wait each waiter is blocked in
    result,            \* what the last Peek or Wait returned to each waiter
    closes,            \* close() calls made on the channel of each awaitable
    wgCounter,         \* the counter of the sync.WaitGroup
    wgLow,             \* lowest value of the counter since each awaitable was made
    \* ---- clock ----
    tmActive,          \* the runtime timer is armed: it has not expired and was not stopped
    tmPeriod,          \* number of timer.Reset calls so far: the period the timer is in
    tmPending,         \* periods that expired and whose tick the runtime has not sent yet
    tmC,               \* timer.C: the ticks in the channel, each the period it belongs to
    tmPc,              \* position of the caller inside Reset / Stop
    tmCall,            \* the method the caller is in: "Reset" | "Stop" | "none"
    tmGot,             \* the ticks the application received from C(), with the period then
    \* ---- cacher ----
    cfile,             \* the cache file of the URL: <<>> when absent, else <<content>>
    accepts,           \* the contents onData returns nil for
    kpc,               \* position of the call
    kBody,             \* body read from the response: <<>> or <<body>>
    kRemoteErr,        \* remoteErr of the call, "none" when the remote fetch succeeded
    kCacheErr,         \* what failed on the cache side of the call, "none" when nothing
    kRet,              \* what the call returned: "nil", an error, or "pending"
    kOnData,           \* the data onData was invoked with during the call, in order
    kLogged,           \* the errors the call logged and did not return
    kStartFile,        \* cfile when the call began
    kLastAccepted,     \* body of the most recent accepted remote fetch: <<>> or <<body>>
    kSaved,            \* how the cache write of that fetch ended: "none" | "ok" | "failed"
    kPrevAccepted,     \* kLastAccepted when the call began
    kPrevSaved,        \* kSaved when the call began
    kCalls,            \* calls begun so far
    \* ---- generics ----
    rsList,            \* ReduceSlice: list
    rsReducer,         \* ReduceSlice: reducer, by name
    rsInitial,         \* ReduceSlice: initial
    rsIndex,           \* ReduceSlice: items the loop has passed
    lastResult,        \* ReduceSlice: lastResult
    rsAccSeen,         \* the accumulated values reducer was called with, in order
    rsPc,              \* position of the call: "loop" | "returned"
    rsReturn           \* what ReduceSlice returned

hookVars   == <<logChannel, closing, closed, upstream, open>>
workerVars == <<wpc, logs, retry, final, timerRace>>
prodVars   == <<ppc, plevel, epc>>
unbufVars  == <<upc, uconn, ulog>>
traceVars  == <<enq, delivered, dropped, enqAtClosing, waitAtClosing,
                dialsAfterClosing, downAtEnq, closeCount>>
histVars   == <<traceVars, surfaced>>
envVars    == <<hookKind, uthreads, reachable>>
loggerVars == <<envVars, hookVars, workerVars, prodVars, unbufVars, histVars>>

factoryVars == <<creators, vecs, registry, byName, mapLock, metrics>>
callerVars  == <<cpc, ccall, cvec, chandle>>
metricVars  == <<factoryVars, callerVars, madeBy, addsBy>>
collectVars == <<lzValue, chCap, tmp, tmpClosed, gleft, gpc, lpc, lm, outCh, received,
                 examined, atStart>>
awaitVars   == <<aws, signaled, apc, remainingCases, ran, waiting, result, closes,
                 wgCounter, wgLow>>

timerVars   == <<tmActive, tmPeriod, tmPending, tmC, tmPc, tmCall, tmGot>>
cacheVars   == <<cfile, accepts, kpc, kBody, kRemoteErr, kCacheErr, kRet, kOnData, kLogged,
                 kStartFile, kLastAccepted, kSaved, kPrevAccepted, kPrevSaved, kCalls>>
foldVars    == <<rsList, rsReducer, rsInitial, rsIndex, lastResult, rsAccSeen, rsPc, rsReturn>>

\* what the actions of one package leave alone
outsideLogger  == <<metricVars, collectVars, awaitVars, timerVars, cacheVars,
                   foldVars>>
outsidePromreg == <<loggerVars, collectVars, awaitVars, timerVars, cacheVars,
                   foldVars>>
outsideCollect == <<loggerVars, metricVars, awaitVars, timerVars, cacheVars,
                   foldVars>>
outsideAwait   == <<loggerVars, metricVars, collectVars, timerVars, cacheVars,
                   foldVars>>
outsideTimer   == <<loggerVars, metricVars, collectVars, awaitVars, cacheVars,
                   foldVars>>
outsideCacher  == <<loggerVars, metricVars, collectVars, awaitVars, timerVars,
                   foldVars>>

outsideFold    == <<loggerVars, metricVars, collectVars, awaitVars, timerVars, cacheVars>>

vars == <<loggerVars, metricVars, collectVars, awaitVars, timerVars, cacheVars, foldVars>>

WaitStates == {"select", "dialWait", "writeWait"}

Sat2(n) == IF n >= 2 THEN 2 ELSE n

SeqRange(s) == {s[i] : i \in 1..Len(s)}

\* a connection object never seen before by anything that still holds one
NewConn ==
    LET held == open \cup {upstream} \cup {uconn[t] : t \in UThreads}
    IN  CHOOSE c \in 1..(Cardinality(held) + 1) : c \notin held

LoggerInit ==
    /\ hookKind \in {"buffered", "unbuffered"}
    /\ uthreads \in IF hookKind = "unbuffered" THEN 1..NUThreads ELSE {1}
    /\ reachable \in BOOLEAN
    /\ logChannel = <<>>
    /\ closing = FALSE
    /\ closed = FALSE
    /\ upstream = Nil
    /\ open = {}
    /\ wpc = IF hookKind = "buffered" THEN "select" ELSE "none"
    /\ logs = <<>>
    /\ retry = TRUE
    /\ final = FALSE
    /\ timerRace = FALSE
    /\ ppc = [p \in Producers |-> "idle"]
    /\ plevel = [p \in Producers |-> InfoLevel]
    /\ epc = "idle"
    /\ upc = [t \in UThreads |-> "idle"]
    /\ uconn = [t \in UThreads |-> Nil]
    /\ ulog = [t \in UThreads |-> 0]
    /\ enq = 0
    /\ delivered = <<>>
    /\ dropped = {}
    /\ enqAtClosing = 0
    /\ waitAtClosing = "none"
    /\ dialsAfterClosing = 0
    /\ downAtEnq = {}
    /\ closeCount = 0
    /\ surfaced = {}

\* ---------------------------------------------------------------------
\* environment
\* ---------------------------------------------------------------------
ToggleReachable ==
    /\ reachable' = ~reachable
    /\ UNCHANGED <<outsideLogger, hookKind, uthreads, hookVars, workerVars, prodVars, unbufVars, histVars>>

\* ---------------------------------------------------------------------
\* buffered hook: shared pieces
\* ---------------------------------------------------------------------

\* Fire returns err to the logging call site ("nil": no error)
ReturnFromFire(err) ==
    surfaced' = IF err = "nil" THEN surfaced ELSE surfaced \cup {err}

\* drop() that forgets the connection without closing it
dropLeak ==
    /\ open' = open
    /\ upstream' = Nil

\* drop(): close the connection the hook holds, if any, and forget it
drop ==
    /\ open' = open \ {upstream}
    /\ upstream' = Nil

\* drainLogChannel that puts each received record in front of the list
RECURSIVE drainLogChannelLIFO(_, _)
drainLogChannelLIFO(ch, list) ==
    IF ch = <<>> THEN list
    ELSE drainLogChannelLIFO(Tail(ch), <<Head(ch)>> \o list)

\* drainLogChannel: receive until the channel is empty, appending to list
RECURSIVE drainLogChannel(_, _)
drainLogChannel(ch, list) ==
    IF ch = <<>> THEN list
    ELSE drainLogChannel(Tail(ch), Append(list, Head(ch)))

\* close(hook.closing) on a channel that is still open
SignalClosing ==
    /\ closing' = TRUE
    /\ timerRace' = (wpc \in WaitStates)
    /\ waitAtClosing' = IF wpc \in {"dialWait", "writeWait"} THEN wpc ELSE "other"
    /\ enqAtClosing' = enq

\* where run() continues when flushLogs has returned (true, or false and run returns)
AfterFlush(cont, isFinal) ==
    IF isFinal \/ ~cont THEN "deferDrop" ELSE "select"

\* flushLogs(queued, r) is entered; an empty list returns true at once
StartFlush(queued, r, isFinal) ==
    /\ logs' = queued
    /\ retry' = r
    /\ final' = isFinal
    /\ wpc' = IF queued = <<>> THEN AfterFlush(TRUE, isFinal) ELSE "connect"

\* flushLogs that gives up the record at hand only and goes on with the next
GiveUpOne ==
    /\ dropped' = dropped \cup {Head(logs)}
    /\ logs' = Tail(logs)
    /\ wpc' = IF Tail(logs) = <<>> THEN AfterFlush(FALSE, final) ELSE "connect"

\* connect returned nil: flushLogs reports the remaining records dropped, returns false
GiveUp ==
    /\ dropped' = dropped \cup SeqRange(logs)
    /\ logs' = <<>>
    /\ wpc' = AfterFlush(FALSE, final)

\* ---------------------------------------------------------------------
\* buffered hook: the worker goroutine run()
\* ---------------------------------------------------------------------

\* run: case <-time.After(tcpFlushInterval)
Tick ==
    /\ hookKind = "buffered"
    /\ wpc = "select"
    /\ ~closing \/ timerRace
    /\ StartFlush(drainLogChannel(logChannel, <<>>), TRUE, FALSE)
    /\ logChannel' = <<>>
    /\ timerRace' = FALSE
    /\ UNCHANGED <<outsideLogger, envVars, closing, closed, upstream, open, prodVars, unbufVars, histVars>>

\* run: case <-hook.closing, flushRemainingLogs
ClosingCase ==
    /\ hookKind = "buffered"
    /\ wpc = "select"
    /\ closing
    /\ StartFlush(drainLogChannel(logChannel, <<>>), FALSE, TRUE)
    /\ logChannel' = <<>>
    /\ timerRace' = FALSE
    /\ UNCHANGED <<outsideLogger, envVars, closing, closed, upstream, open, prodVars, unbufVars, histVars>>

\* flushLogs: upstream := hook.connect(retry), up to the result of the dial
Connect ==
    /\ wpc = "connect"
    /\ IF upstream # Nil
       THEN /\ wpc' = "write"
            /\ UNCHANGED <<upstream, open, logs, dropped, dialsAfterClosing>>
       ELSE /\ dialsAfterClosing' =
                   IF closing THEN Sat2(dialsAfterClosing + 1) ELSE dialsAfterClosing
            /\ IF reachable
               THEN /\ upstream' = NewConn
                    /\ open' = open \cup {NewConn}
                    /\ wpc' = "write"
                    /\ UNCHANGED <<logs, dropped>>
               ELSE /\ UNCHANGED <<upstream, open>>
                    /\ IF ~retry
                       THEN GiveUp
                       ELSE /\ wpc' = "dialWait"
                            /\ UNCHANGED <<logs, dropped>>
    /\ UNCHANGED <<outsideLogger, envVars, logChannel, closing, closed, retry, final, timerRace,
                   prodVars, unbufVars, enq, delivered, enqAtClosing, waitAtClosing,
                   downAtEnq, closeCount, surfaced>>

\* connect: select, case <-hook.closing: return nil
DialWaitClosing ==
    /\ wpc = "dialWait"
    /\ closing
    /\ GiveUp
    /\ timerRace' = FALSE
    /\ UNCHANGED <<outsideLogger, envVars, hookVars, retry, final, prodVars, unbufVars, enq, delivered,
                   enqAtClosing, waitAtClosing, dialsAfterClosing, downAtEnq, closeCount, surfaced>>

\* connect: select, case <-time.After(RetryInterval): dial again
DialWaitTimer ==
    /\ wpc = "dialWait"
    /\ ~closing \/ timerRace
    /\ wpc' = "connect"
    /\ timerRace' = FALSE
    /\ UNCHANGED <<outsideLogger, envVars, hookVars, logs, retry, final, prodVars, unbufVars, histVars>>

\* flushLogs: upstream.Write succeeded, continue IterateLogs
WriteOk ==
    /\ wpc = "write"
    /\ reachable
    /\ delivered' = Append(delivered, Head(logs))
    /\ logs' = Tail(logs)
    /\ wpc' = IF Tail(logs) = <<>> THEN AfterFlush(TRUE, final) ELSE "connect"
    /\ UNCHANGED <<outsideLogger, envVars, hookVars, retry, final, timerRace, prodVars, unbufVars, enq,
                   dropped, enqAtClosing, waitAtClosing, dialsAfterClosing, downAtEnq,
                   closeCount, surfaced>>

\* flushLogs that moves on to the next record after a failed write
WriteFailedSkip ==
    /\ wpc = "write"
    /\ ~reachable
    /\ drop
    /\ logs' = Tail(logs)
    /\ wpc' = IF Tail(logs) = <<>> THEN AfterFlush(TRUE, final) ELSE "connect"
    /\ UNCHANGED <<outsideLogger, envVars, logChannel, closing, closed, retry, final, timerRace,
                   prodVars, unbufVars, histVars>>

\* flushLogs: upstream.Write failed, hook.drop(), then the select
WriteFailed ==
    /\ wpc = "write"
    /\ ~reachable
    /\ drop
    /\ wpc' = "writeWait"
    /\ UNCHANGED <<outsideLogger, envVars, logChannel, closing, closed, logs, retry, final, timerRace,
                   prodVars, unbufVars, histVars>>

\* flushLogs: select, case <-hook.closing: retry = false
WriteWaitClosing ==
    /\ wpc = "writeWait"
    /\ closing
    /\ retry' = FALSE
    /\ wpc' = "connect"
    /\ timerRace' = FALSE
    /\ UNCHANGED <<outsideLogger, envVars, hookVars, logs, final, prodVars, unbufVars, histVars>>

\* flushLogs: select, case <-time.After(RetryInterval)
WriteWaitTimer ==
    /\ wpc = "writeWait"
    /\ ~closing \/ timerRace
    /\ wpc' = "connect"
    /\ timerRace' = FALSE
    /\ UNCHANGED <<outsideLogger, envVars, hookVars, logs, retry, final, prodVars, unbufVars, histVars>>

\* run() that signals completion without the deferred drop()
DeferDropSkipped ==
    /\ wpc = "deferDrop"
    /\ wpc' = "deferClose"
    /\ UNCHANGED <<outsideLogger, envVars, hookVars, logs, retry, final, timerRace,
                   prodVars, unbufVars, histVars>>

\* run: defer hook.drop()
DeferDrop ==
    /\ wpc = "deferDrop"
    /\ drop
    /\ wpc' = "deferClose"
    /\ UNCHANGED <<outsideLogger, envVars, logChannel, closing, closed, logs, retry, final, timerRace,
                   prodVars, unbufVars, histVars>>

\* run: defer close(hook.closed)
DeferClose ==
    /\ wpc = "deferClose"
    /\ closed' = TRUE
    /\ wpc' = "done"
    /\ UNCHANGED <<outsideLogger, envVars, logChannel, closing, upstream, open, logs, retry, final,
                   timerRace, prodVars, unbufVars, histVars>>

WorkerStep ==
    \/ Tick
    \/ ClosingCase
    \/ Connect
    \/ DialWaitClosing
    \/ DialWaitTimer
    \/ WriteOk
    \/ WriteFailed
    \/ WriteWaitClosing
    \/ WriteWaitTimer
    \/ DeferDrop
    \/ DeferClose

\* ---------------------------------------------------------------------
\* buffered hook: Fire, called by application goroutines
\* ---------------------------------------------------------------------

\* Fire is called with a record that formats to a non-empty line
FireCall(p, lvl) ==
    /\ hookKind = "buffered"
    /\ ppc[p] = "idle"
    /\ enq + Cardinality({q \in Producers : ppc[q] = "send"}) < MaxRecords
    /\ ppc' = [ppc EXCEPT ![p] = "send"]
    /\ plevel' = [plevel EXCEPT ![p] = lvl]
    /\ UNCHANGED <<outsideLogger, envVars, hookVars, workerVars, epc, unbufVars, histVars>>

\* Fire: hook.logChannel <- upstreamLog{...}, possible only while the channel has room
Enqueue(p) ==
    /\ ppc[p] = "send"
    /\ Len(logChannel) < ChannelCap
    /\ logChannel' = Append(logChannel, enq + 1)
    /\ enq' = enq + 1
    /\ ppc' = [ppc EXCEPT ![p] = IF plevel[p] <= PanicLevel THEN "close" ELSE "idle"]
    /\ plevel' = [plevel EXCEPT ![p] = IF plevel[p] <= PanicLevel THEN @ ELSE InfoLevel]
    /\ UNCHANGED <<outsideLogger, envVars, closing, closed, upstream, open, workerVars, epc,
                   unbufVars, delivered, dropped, enqAtClosing, waitAtClosing,
                   dialsAfterClosing, closeCount>>
    /\ IF plevel[p] <= PanicLevel THEN UNCHANGED surfaced ELSE ReturnFromFire("nil")

FireSend(p) ==
    /\ Enqueue(p)
    /\ UNCHANGED downAtEnq

\* the same step, remembering the records submitted during an outage
FireSendOutage(p) ==
    /\ Enqueue(p)
    /\ downAtEnq' = IF reachable THEN downAtEnq ELSE downAtEnq \cup {enq + 1}

\* Fire: close(hook.closing); closing a closed channel panics
FireClose(p) ==
    /\ ppc[p] = "close"
    /\ closeCount' = Sat2(closeCount + 1)
    /\ IF closing
       THEN /\ ppc' = [ppc EXCEPT ![p] = "panicked"]
            /\ UNCHANGED <<closing, timerRace, waitAtClosing, enqAtClosing>>
       ELSE /\ SignalClosing
            /\ ppc' = [ppc EXCEPT ![p] = "wait"]
    /\ UNCHANGED <<outsideLogger, envVars, logChannel, closed, upstream, open, wpc, logs, retry, final,
                   plevel, epc, unbufVars, enq, delivered, dropped, dialsAfterClosing,
                   downAtEnq, surfaced>>

\* Fire: select, case <-hook.closed
FireWaitClosed(p) ==
    /\ ppc[p] = "wait"
    /\ closed
    /\ ppc' = [ppc EXCEPT ![p] = "idle"]
    /\ plevel' = [plevel EXCEPT ![p] = InfoLevel]
    /\ ReturnFromFire("nil")
    /\ UNCHANGED <<outsideLogger, envVars, hookVars, workerVars, epc, unbufVars, traceVars>>

\* Fire: select, case <-time.After(tcpBufferedPanicTimeout)
FireWaitTimeout(p) ==
    /\ ppc[p] = "wait"
    /\ ppc' = [ppc EXCEPT ![p] = "idle"]
    /\ plevel' = [plevel EXCEPT ![p] = InfoLevel]
    /\ ReturnFromFire("nil")
    /\ UNCHANGED <<outsideLogger, envVars, hookVars, workerVars, epc, unbufVars, traceVars>>

ProducerStep(p) ==
    \/ FireSend(p)
    \/ FireClose(p)
    \/ FireWaitClosed(p)
    \/ FireWaitTimeout(p)

\* ---------------------------------------------------------------------
\* buffered hook: onExit, the exit handler registered with logrus
\* ---------------------------------------------------------------------

\* onExit: close(hook.closing)
OnExit ==
    /\ hookKind = "buffered"
    /\ epc = "idle"
    /\ closeCount' = Sat2(closeCount + 1)
    /\ IF closing
       THEN /\ epc' = "panicked"
            /\ UNCHANGED <<closing, timerRace, waitAtClosing, enqAtClosing>>
       ELSE /\ SignalClosing
            /\ epc' = "wait"
    /\ UNCHANGED <<outsideLogger, envVars, logChannel, closed, upstream, open, wpc, logs, retry, final,
                   ppc, plevel, unbufVars, enq, delivered, dropped, dialsAfterClosing,
                   downAtEnq, surfaced>>

\* onExit: select, case <-hook.closed
ExitWaitClosed ==
    /\ epc = "wait"
    /\ closed
    /\ epc' = "returned"
    /\ UNCHANGED <<outsideLogger, envVars, hookVars, workerVars, ppc, plevel, unbufVars, histVars>>

\* onExit: select, case <-time.After(tcpBufferedExitTimeout)
ExitWaitTimeout ==
    /\ epc = "wait"
    /\ epc' = "returned"
    /\ UNCHANGED <<outsideLogger, envVars, hookVars, workerVars, ppc, plevel, unbufVars, histVars>>

ExitStep ==
    \/ ExitWaitClosed
    \/ ExitWaitTimeout

\* ---------------------------------------------------------------------
\* unbuffered hook: Fire -> send -> connect / drop, per calling goroutine
\* ---------------------------------------------------------------------

\* Fire is called with a record that formats to a non-empty line: hook.send(line)
UFire(t) ==
    /\ hookKind = "unbuffered"
    /\ t <= uthreads
    /\ upc[t] = "idle"
    /\ enq < MaxRecords
    /\ enq' = enq + 1
    /\ ulog' = [ulog EXCEPT ![t] = enq + 1]
    /\ upc' = [upc EXCEPT ![t] = "connect"]
    /\ UNCHANGED <<outsideLogger, envVars, hookVars, workerVars, prodVars, uconn, delivered, dropped,
                   enqAtClosing, waitAtClosing, dialsAfterClosing, downAtEnq, closeCount, surfaced>>

\* connect: if hook.upstream != nil { return hook.upstream }
UConnect(t) ==
    /\ upc[t] = "connect"
    /\ IF upstream # Nil
       THEN /\ uconn' = [uconn EXCEPT ![t] = upstream]
            /\ upc' = [upc EXCEPT ![t] = "write"]
       ELSE /\ upc' = [upc EXCEPT ![t] = "dial"]
            /\ UNCHANGED uconn
    /\ UNCHANGED <<outsideLogger, envVars, hookVars, workerVars, prodVars, ulog, histVars>>

\* connect and send that hand the dial error back to Fire's caller
UDialReturnsError(t) ==
    /\ upc[t] = "dial"
    /\ IF reachable
       THEN /\ open' = open \cup {NewConn}
            /\ upstream' = NewConn
            /\ uconn' = [uconn EXCEPT ![t] = NewConn]
            /\ upc' = [upc EXCEPT ![t] = "write"]
            /\ UNCHANGED <<dropped, ulog, surfaced>>
       ELSE /\ dropped' = dropped \cup {ulog[t]}
            /\ upc' = [upc EXCEPT ![t] = "idle"]
            /\ ulog' = [ulog EXCEPT ![t] = 0]
            /\ ReturnFromFire("dial")
            /\ UNCHANGED <<open, upstream, uconn>>
    /\ UNCHANGED <<outsideLogger, envVars, logChannel, closing, closed, workerVars, prodVars, enq,
                   delivered, enqAtClosing, waitAtClosing, dialsAfterClosing, downAtEnq,
                   closeCount>>

\* send that tries the record again after a failed write
UWriteFailedRetry(t) ==
    /\ upc[t] = "write"
    /\ ~reachable \/ uconn[t] \notin open
    /\ upc' = [upc EXCEPT ![t] = "connect"]
    /\ uconn' = [uconn EXCEPT ![t] = Nil]
    /\ drop
    /\ UNCHANGED <<outsideLogger, envVars, logChannel, closing, closed, workerVars, prodVars, ulog,
                   histVars>>

\* connect: net.DialTimeout; on success hook.upstream = conn, on failure send returns
UDial(t) ==
    /\ upc[t] = "dial"
    /\ IF reachable
       THEN /\ open' = open \cup {NewConn}
            /\ upstream' = NewConn
            /\ uconn' = [uconn EXCEPT ![t] = NewConn]
            /\ upc' = [upc EXCEPT ![t] = "write"]
            /\ UNCHANGED <<dropped, ulog, surfaced>>
       ELSE /\ dropped' = dropped \cup {ulog[t]}
            /\ upc' = [upc EXCEPT ![t] = "idle"]
            /\ ulog' = [ulog EXCEPT ![t] = 0]
            /\ ReturnFromFire("nil")
            /\ UNCHANGED <<open, upstream, uconn>>
    /\ UNCHANGED <<outsideLogger, envVars, logChannel, closing, closed, workerVars, prodVars, enq,
                   delivered, enqAtClosing, waitAtClosing, dialsAfterClosing, downAtEnq,
                   closeCount>>

\* send: upstream.Write succeeded
UWriteOk(t) ==
    /\ upc[t] = "write"
    /\ reachable
    /\ uconn[t] \in open
    /\ delivered' = Append(delivered, ulog[t])
    /\ upc' = [upc EXCEPT ![t] = "idle"]
    /\ uconn' = [uconn EXCEPT ![t] = Nil]
    /\ ulog' = [ulog EXCEPT ![t] = 0]
    /\ ReturnFromFire("nil")
    /\ UNCHANGED <<outsideLogger, envVars, hookVars, workerVars, prodVars, enq, dropped,
                   enqAtClosing, waitAtClosing, dialsAfterClosing, downAtEnq, closeCount>>

\* send: upstream.Write failed (the upstream is gone, or the connection was closed)
UWriteFailed(t) ==
    /\ upc[t] = "write"
    /\ ~reachable \/ uconn[t] \notin open
    /\ dropped' = dropped \cup {ulog[t]}
    /\ upc' = [upc EXCEPT ![t] = "drop"]
    /\ UNCHANGED <<outsideLogger, envVars, hookVars, workerVars, prodVars, uconn, ulog, enq, delivered,
                   enqAtClosing, waitAtClosing, dialsAfterClosing, downAtEnq, closeCount, surfaced>>

\* send: hook.drop(), then send and Fire return
UDrop(t) ==
    /\ upc[t] = "drop"
    /\ drop
    /\ upc' = [upc EXCEPT ![t] = "idle"]
    /\ uconn' = [uconn EXCEPT ![t] = Nil]
    /\ ulog' = [ulog EXCEPT ![t] = 0]
    /\ ReturnFromFire("nil")
    /\ UNCHANGED <<outsideLogger, envVars, logChannel, closing, closed, workerVars, prodVars, traceVars>>

UStep(t) ==
    \/ UConnect(t)
    \/ UDial(t)
    \/ UWriteOk(t)
    \/ UWriteFailed(t)
    \/ UDrop(t)

\* =====================================================================
\* promexporter/promreg: MetricFactory and its sub-creators
\* =====================================================================

\* a metric name or prefix is the sequence of its pieces: string
\* concatenation is \o, and "app_" + "l_c" equals "app_l_" + "c"
RootPrefix == <<"app">>

\* the value slot of a label a curried vector leaves to WithLabelValues
Unset == "?"

Callers == 1..NCallers

VecFns    == {"AddOrGetCounterVec", "AddOrGetGaugeVec", "AddOrGetLazyCounterVec"}
SingleFns == {"AddOrGetCounter", "AddOrGetGauge", "AddOrGetLazyCounter"}

\* the vector type each AddOrGet* function creates and asserts
VecTypeOf(fn) ==
    CASE fn \in {"AddOrGetCounter", "AddOrGetCounterVec"} -> "RWCounterVec"
      [] fn \in {"AddOrGetGauge", "AddOrGetGaugeVec"}     -> "RWGaugeVec"
      [] fn = "AddOrGetLazyCounter"                       -> "RWCounterVec"
      [] fn = "AddOrGetLazyCounterVec"                    -> "LazyRWCounterVec"

NoCall == [fn |-> "none", creator |-> 0, name |-> <<>>, fullName |-> <<>>,
           allLabelNames |-> <<>>, allLabelValues |-> <<>>]

NoHandle == [vec |-> 0, key |-> <<>>]

MetricInit ==
    /\ creators = << [fullPrefix |-> RootPrefix,
                      fixedLabelNames |-> <<"r">>,
                      fixedLabelValues |-> <<"R">>] >>
    /\ madeBy = << [parent |-> 0, prefix |-> RootPrefix,
                    labelNames |-> <<"r">>, labelValues |-> <<"R">>] >>
    /\ vecs = <<>>
    /\ registry = {}
    /\ byName = <<>>
    /\ mapLock = 0
    /\ metrics = <<>>
    /\ cpc = [t \in Callers |-> "idle"]
    /\ ccall = [t \in Callers |-> NoCall]
    /\ cvec = [t \in Callers |-> 0]
    /\ chandle = [t \in Callers |-> NoHandle]
    /\ addsBy = <<>>

HasDuplicates(s) == \E i, j \in 1..Len(s) : i < j /\ s[i] = s[j]

\* concatNameAndLabels: <<fullName, allLabelNames, allLeftmostLabelValues>>
concatNameAndLabels(creator, name, labelNames, leftmostLabelValues) ==
    << creator.fullPrefix \o name,
       creator.fixedLabelNames \o labelNames,
       creator.fixedLabelValues \o leftmostLabelValues >>

\* buildLabels: labelMap[labelNames[i]] = value for every i, value of leftmostLabelValues
\* (a later assignment to the same name replaces the earlier one)
buildLabels(labelNames, leftmostLabelValues) ==
    [n \in {labelNames[i] : i \in 1..Len(leftmostLabelValues)} |->
        LET last == CHOOSE i \in 1..Len(leftmostLabelValues) :
                        /\ labelNames[i] = n
                        /\ \A j \in 1..Len(leftmostLabelValues) : labelNames[j] = n => j <= i
        IN  leftmostLabelValues[last]]

\* MetricVec.CurryWith succeeds iff every label of the map is a label of the vector
CurryOk(vec, labels) ==
    DOMAIN labels \subseteq {vec.labelNames[i] : i \in 1..Len(vec.labelNames)}

\* the curried vector: the value of every label of the vector, Unset where not curried
CurryWith(vec, labels) ==
    [i \in 1..Len(vec.labelNames) |->
        IF vec.labelNames[i] \in DOMAIN labels THEN labels[vec.labelNames[i]] ELSE Unset]

\* WithLabelValues(lvs...) on a curried vector: the values fill the unset labels in order
RECURSIVE FillUnset(_, _)
FillUnset(key, lvs) ==
    IF key = <<>> THEN <<>>
    ELSE IF Head(key) = Unset
         THEN <<Head(lvs)>> \o FillUnset(Tail(key), Tail(lvs))
         ELSE <<Head(key)>> \o FillUnset(Tail(key), lvs)

UnsetCount(key) == Cardinality({i \in 1..Len(key) : key[i] = Unset})

\* getOrCreateMetric: the metric of these label values exists from now on, at 0 when new
WithMetric(m, v, key) ==
    IF key \in DOMAIN m[v] THEN m
    ELSE [m EXCEPT ![v] = [k \in DOMAIN m[v] \cup {key} |->
                              IF k = key THEN 0 ELSE m[v][k]]]

RECURSIVE SumOver(_, _)
SumOver(f, S) ==
    IF S = {} THEN 0
    ELSE LET k == CHOOSE k \in S : TRUE IN f[k] + SumOver(f, S \ {k})

\* promext.SumMetricValues of a vector
SumMetricValues(v) == SumOver(metrics[v], DOMAIN metrics[v])

\* a panic unwinds the call: deferred Unlock runs, nothing is returned
Panic(t) ==
    /\ cpc' = [cpc EXCEPT ![t] = "panicked"]
    /\ cvec' = [cvec EXCEPT ![t] = 0]
    /\ chandle' = [chandle EXCEPT ![t] = NoHandle]

\* AddOrGetPrefix(prefix, labelNames, labelValues) on creators[c]
AddOrGetPrefix(c, prefix, labelNames, labelValues) ==
    /\ c \in 1..Len(creators)
    /\ Len(creators) < MaxCreators
    /\ Len(labelNames) >= Len(labelValues)
    /\ mapLock = 0
    /\ LET all == concatNameAndLabels(creators[c], prefix, labelNames, labelValues)
       IN  creators' = Append(creators, [fullPrefix |-> all[1],
                                         fixedLabelNames |-> all[2],
                                         fixedLabelValues |-> all[3]])
    /\ madeBy' = Append(madeBy, [parent |-> c, prefix |-> prefix,
                                 labelNames |-> labelNames, labelValues |-> labelValues])
    /\ UNCHANGED <<vecs, registry, byName, mapLock, metrics, callerVars, addsBy>>
    /\ UNCHANGED outsidePromreg

\* AddOrGet*(name, help, labelNames, leftmostLabelValues) on creators[c], up to the lock
AddOrGet(t, fn, c, name, labelNames, leftmostLabelValues) ==
    /\ cpc[t] = "idle"
    /\ c \in 1..Len(creators)
    /\ Len(labelNames) >= Len(leftmostLabelValues)
    /\ fn \in SingleFns => Len(labelNames) = Len(leftmostLabelValues)
    /\ LET all == concatNameAndLabels(creators[c], name, labelNames, leftmostLabelValues)
       IN  ccall' = [ccall EXCEPT ![t] = [fn |-> fn, creator |-> c, name |-> name,
                                          fullName |-> all[1],
                                          allLabelNames |-> all[2],
                                          allLabelValues |-> all[3]]]
    /\ cpc' = [cpc EXCEPT ![t] = "lock"]
    /\ UNCHANGED <<factoryVars, cvec, chandle, madeBy, addsBy>>
    /\ UNCHANGED outsidePromreg

\* mapLock.Lock() that does not wait for the holder
LockNoWait(t) ==
    /\ cpc[t] = "lock"
    /\ mapLock' = t
    /\ cpc' = [cpc EXCEPT ![t] = "lookup"]
    /\ UNCHANGED <<creators, vecs, registry, byName, metrics, ccall, cvec, chandle,
                   madeBy, addsBy>>
    /\ UNCHANGED outsidePromreg

\* creator.root.mapLock.Lock()
Lock(t) ==
    /\ cpc[t] = "lock"
    /\ mapLock = 0
    /\ mapLock' = t
    /\ cpc' = [cpc EXCEPT ![t] = "lookup"]
    /\ UNCHANGED <<creators, vecs, registry, byName, metrics, ccall, cvec, chandle,
                   madeBy, addsBy>>
    /\ UNCHANGED outsidePromreg

\* if oldVec, ok := byName[fullName]; ok { return oldVec.(*T) }
Lookup(t) ==
    /\ cpc[t] = "lookup"
    /\ IF ccall[t].fullName \in DOMAIN byName
       THEN /\ mapLock' = 0
            /\ IF vecs[byName[ccall[t].fullName]].type = VecTypeOf(ccall[t].fn)
               THEN /\ cvec' = [cvec EXCEPT ![t] = byName[ccall[t].fullName]]
                    /\ cpc' = [cpc EXCEPT ![t] = "curry"]
                    /\ UNCHANGED chandle
               ELSE Panic(t)
       ELSE /\ cpc' = [cpc EXCEPT ![t] = "create"]
            /\ UNCHANGED <<mapLock, cvec, chandle>>
    /\ UNCHANGED <<creators, vecs, registry, byName, metrics, ccall, madeBy, addsBy>>
    /\ UNCHANGED outsidePromreg

\* Register: the descriptor is valid and no registered vector has the same name
RegisterOk(vec) ==
    /\ ~HasDuplicates(vec.labelNames)
    /\ \A r \in registry : vecs[r].fqName # vec.fqName

\* newVec := New*Vec(opts, allLabelNames); Register(newVec); byName[fullName] = newVec
Create(t) ==
    /\ cpc[t] = "create"
    /\ Len(vecs) < MaxVecs
    /\ LET newVec == [fqName |-> ccall[t].fullName, type |-> VecTypeOf(ccall[t].fn),
                      labelNames |-> ccall[t].allLabelNames]
           id == Len(vecs) + 1
       IN  /\ vecs' = Append(vecs, newVec)
           /\ metrics' = Append(metrics, <<>>)
           /\ IF RegisterOk(newVec)
              THEN /\ registry' = registry \cup {id}
                   /\ byName' = [n \in DOMAIN byName \cup {newVec.fqName} |->
                                    IF n = newVec.fqName THEN id ELSE byName[n]]
                   /\ addsBy' = [n \in DOMAIN addsBy \cup {newVec.fqName} |->
                                    IF n \in DOMAIN addsBy THEN addsBy[n] ELSE 0]
                   /\ cvec' = [cvec EXCEPT ![t] = id]
                   /\ cpc' = [cpc EXCEPT ![t] = "curry"]
                   /\ UNCHANGED chandle
              ELSE /\ Panic(t)
                   /\ UNCHANGED <<registry, byName, addsBy>>
    /\ mapLock' = 0
    /\ UNCHANGED <<creators, ccall, madeBy>>
    /\ UNCHANGED outsidePromreg

\* CurryWith(buildLabels(...)), and for a single metric WithLabelValues()
Curry(t) ==
    /\ cpc[t] = "curry"
    /\ LET vec == vecs[cvec[t]]
           labels == buildLabels(ccall[t].allLabelNames, ccall[t].allLabelValues)
           key == CurryWith(vec, labels)
       IN  IF ~CurryOk(vec, labels) \/ (ccall[t].fn \in SingleFns /\ UnsetCount(key) # 0)
           THEN /\ Panic(t)
                /\ UNCHANGED metrics
           ELSE /\ chandle' = [chandle EXCEPT ![t] = [vec |-> cvec[t], key |-> key]]
                /\ cpc' = [cpc EXCEPT ![t] = "have"]
                /\ metrics' = IF ccall[t].fn \in SingleFns
                              THEN WithMetric(metrics, cvec[t], key)
                              ELSE metrics
                /\ UNCHANGED cvec
    /\ UNCHANGED <<creators, vecs, registry, byName, mapLock, ccall, madeBy, addsBy>>
    /\ UNCHANGED outsidePromreg

\* the caller uses what it got: WithLabelValues(lvs...) where labels are unset, then Add(1)
Add(t, lvs) ==
    /\ cpc[t] = "have"
    /\ Len(lvs) = UnsetCount(chandle[t].key)
    /\ addsBy[ccall[t].fullName] < MaxAdds
    /\ LET v == chandle[t].vec
           key == FillUnset(chandle[t].key, lvs)
           m == WithMetric(metrics, v, key)
       IN  metrics' = [m EXCEPT ![v][key] = @ + 1]
    /\ addsBy' = [addsBy EXCEPT ![ccall[t].fullName] = @ + 1]
    /\ UNCHANGED <<creators, vecs, registry, byName, mapLock, callerVars, madeBy>>
    /\ UNCHANGED outsidePromreg

\* the caller is done with the handle and may call the factory again
Release(t) ==
    /\ cpc[t] = "have"
    /\ cpc' = [cpc EXCEPT ![t] = "idle"]
    /\ ccall' = [ccall EXCEPT ![t] = NoCall]
    /\ cvec' = [cvec EXCEPT ![t] = 0]
    /\ chandle' = [chandle EXCEPT ![t] = NoHandle]
    /\ UNCHANGED <<factoryVars, madeBy, addsBy>>
    /\ UNCHANGED outsidePromreg

\* MetricFactory.Collect: what every vector of byName lists now; a LazyRWCounterVec
\* leaves out its counters at zero
Collect ==
    {<<v, key>> \in {<<byName[n], k>> : n \in DOMAIN byName, k \in UNION {DOMAIN metrics[i] : i \in 1..Len(metrics)}} :
        /\ key \in DOMAIN metrics[v]
        /\ vecs[v].type = "LazyRWCounterVec" => metrics[v][key] # 0}

\* =====================================================================
\* promexporter/promext: LazyRWCounterVec.Collect
\* =====================================================================

\* capacities of the channel Collect is given: unbuffered, buffered
ChanCaps == {0, 1}

\* the counters of the vector are 1..Len(lzValue), in the order WithLabelValues made them
LazyCounters == 1..Len(lzValue)

CollectInit ==
    /\ lzValue = <<>>
    /\ chCap = 0
    /\ tmp = <<>>
    /\ tmpClosed = FALSE
    /\ gleft = {}
    /\ gpc = "none"
    /\ lpc = "idle"
    /\ lm = 0
    /\ outCh = <<>>
    /\ received = <<>>
    /\ examined = <<>>
    /\ atStart = {}

\* v.WithLabelValues(lvs...) for label values not seen before: a new counter at 0.
\* It needs the write lock of the metric map, which MetricVec.Collect holds for reading.
LazyWithLabelValues ==
    /\ Len(lzValue) < MaxCounters
    /\ gpc # "collecting"
    /\ lzValue' = Append(lzValue, 0)
    /\ UNCHANGED <<chCap, tmp, tmpClosed, gleft, gpc, lpc, lm, outCh, received,
                   examined, atStart>>
    /\ UNCHANGED outsideCollect

\* counter.Add(1) by some goroutine of the application
LazyAdd(c) ==
    /\ c \in LazyCounters
    /\ lzValue[c] < MaxValue
    /\ lzValue' = [lzValue EXCEPT ![c] = @ + 1]
    /\ UNCHANGED <<chCap, tmp, tmpClosed, gleft, gpc, lpc, lm, outCh, received,
                   examined, atStart>>
    /\ UNCHANGED outsideCollect

\* Collect(ch) is called with a channel of capacity cap: tmp is made, the goroutine
\* starts MetricVec.Collect(tmp) over the counters of the vector
StartCollect(cap) ==
    /\ lpc \in {"idle", "done"}
    /\ gpc \in {"none", "done"}
    /\ outCh = <<>>
    /\ chCap' = cap
    /\ tmp' = <<>>
    /\ tmpClosed' = FALSE
    /\ gleft' = LazyCounters
    /\ gpc' = "collecting"
    /\ lpc' = "recv"
    /\ lm' = 0
    /\ received' = <<>>
    /\ examined' = <<>>
    /\ atStart' = {c \in LazyCounters : lzValue[c] # 0}
    /\ UNCHANGED <<lzValue, outCh>>
    /\ UNCHANGED outsideCollect

\* MetricVec.Collect: tmp <- metric, for the metrics of the map in any order.
\* With capacity 0 the send is a rendezvous with the receive of the range loop.
GSend(c) ==
    /\ gpc = "collecting"
    /\ c \in gleft
    /\ gleft' = gleft \ {c}
    /\ IF chCap = 0
       THEN /\ lpc = "recv"
            /\ lm' = c
            /\ lpc' = "check"
            /\ UNCHANGED tmp
       ELSE /\ Len(tmp) < chCap
            /\ tmp' = Append(tmp, c)
            /\ UNCHANGED <<lm, lpc>>
    /\ UNCHANGED <<lzValue, chCap, tmpClosed, gpc, outCh, received, examined, atStart>>
    /\ UNCHANGED outsideCollect

\* close(tmp) once MetricVec.Collect has returned
GClose ==
    /\ gpc = "collecting"
    /\ gleft = {}
    /\ tmpClosed' = TRUE
    /\ gpc' = "done"
    /\ UNCHANGED <<lzValue, chCap, tmp, gleft, lpc, lm, outCh, received, examined, atStart>>
    /\ UNCHANGED outsideCollect

\* for m := range tmp: the next buffered metric
LRecv ==
    /\ lpc = "recv"
    /\ tmp # <<>>
    /\ lm' = Head(tmp)
    /\ tmp' = Tail(tmp)
    /\ lpc' = "check"
    /\ UNCHANGED <<lzValue, chCap, tmpClosed, gleft, gpc, outCh, received, examined, atStart>>
    /\ UNCHANGED outsideCollect

\* for m := range tmp: tmp is closed and empty, Collect returns
LRangeEnds ==
    /\ lpc = "recv"
    /\ tmp = <<>>
    /\ tmpClosed
    /\ lpc' = "done"
    /\ lm' = 0
    /\ UNCHANGED <<lzValue, chCap, tmp, tmpClosed, gleft, gpc, outCh, received,
                   examined, atStart>>
    /\ UNCHANGED outsideCollect

\* the loop body without the test of the value
LCheckAlwaysSend ==
    /\ lpc = "check"
    /\ examined' = [c \in DOMAIN examined \cup {lm} |->
                       IF c = lm THEN lzValue[lm] ELSE examined[c]]
    /\ lpc' = "send"
    /\ UNCHANGED <<lzValue, chCap, tmp, tmpClosed, gleft, gpc, lm, outCh, received, atStart>>
    /\ UNCHANGED outsideCollect

\* if m.(*lazyRWCounter).Get() == 0 { continue }
LCheck ==
    /\ lpc = "check"
    /\ examined' = [c \in DOMAIN examined \cup {lm} |->
                       IF c = lm THEN lzValue[lm] ELSE examined[c]]
    /\ lpc' = IF lzValue[lm] = 0 THEN "recv" ELSE "send"
    /\ UNCHANGED <<lzValue, chCap, tmp, tmpClosed, gleft, gpc, lm, outCh, received, atStart>>
    /\ UNCHANGED outsideCollect

\* ch <- m; with capacity 0 the reader of ch takes the metric at once
LSend ==
    /\ lpc = "send"
    /\ IF chCap = 0
       THEN /\ received' = Append(received, lm)
            /\ UNCHANGED outCh
       ELSE /\ Len(outCh) < chCap
            /\ outCh' = Append(outCh, lm)
            /\ UNCHANGED received
    /\ lpc' = "recv"
    /\ UNCHANGED <<lzValue, chCap, tmp, tmpClosed, gleft, gpc, lm, examined, atStart>>
    /\ UNCHANGED outsideCollect

\* the caller of Collect (the registry) reads ch
Consume ==
    /\ outCh # <<>>
    /\ received' = Append(received, Head(outCh))
    /\ outCh' = Tail(outCh)
    /\ UNCHANGED <<lzValue, chCap, tmp, tmpClosed, gleft, gpc, lpc, lm, examined, atStart>>
    /\ UNCHANGED outsideCollect

CollectGoroutine == (\E c \in 1..MaxCounters : GSend(c)) \/ GClose

CollectLoop == LRecv \/ LRangeEnds \/ LCheck \/ LSend

CollectNext ==
    \/ LazyWithLabelValues
    \/ \E c \in 1..MaxCounters : LazyAdd(c)
    \/ \E cap \in ChanCaps : StartCollect(cap)
    \/ \E c \in 1..MaxCounters : GSend(c)
    \/ GClose
    \/ LRecv
    \/ LRangeEnds
    \/ LCheck
    \/ LSend
    \/ Consume

\* =====================================================================
\* channels: Awaitable
\* =====================================================================

\* the awaitables made so far are 1..Len(aws)
Awaitables == 1..Len(aws)

Waiters == 1..NWaiters

NoWait == [aw |-> 0, timeout |-> "none", late |-> FALSE]

\* what the last Peek or Wait of a waiter returned; late: the awaitable was signaled
\* before that call began
NoResult == [aw |-> 0, value |-> FALSE, late |-> FALSE]

AwaitInit ==
    /\ aws = <<>>
    /\ signaled = <<>>
    /\ apc = <<>>
    /\ remainingCases = <<>>
    /\ ran = <<>>
    /\ waiting = [w \in Waiters |-> NoWait]
    /\ result = [w \in Waiters |-> NoResult]
    /\ closes = <<>>
    /\ wgCounter = 0
    /\ wgLow = <<>>

\* a new awaitable with its open channel, and the position of its goroutine
NewAwaitable(kind, parent, members, pos) ==
    /\ Len(aws) < MaxAwaitables
    /\ aws' = Append(aws, [kind |-> kind, parent |-> parent, members |-> members])
    /\ signaled' = Append(signaled, FALSE)
    /\ apc' = Append(apc, pos)
    /\ remainingCases' = Append(remainingCases, members)
    /\ ran' = Append(ran, 0)
    /\ closes' = Append(closes, 0)
    /\ wgLow' = Append(wgLow, wgCounter)

\* NewSignalAwaitable()
NewSignalAwaitable ==
    /\ NewAwaitable("signal", 0, <<>>, "none")
    /\ UNCHANGED <<waiting, result, wgCounter>>
    /\ UNCHANGED outsideAwait

\* Signal(): close(awaitable.channel); the caller honours "only called once"
Signal(a) ==
    /\ a \in Awaitables
    /\ aws[a].kind = "signal"
    /\ ~signaled[a]
    /\ signaled' = [signaled EXCEPT ![a] = TRUE]
    /\ closes' = [closes EXCEPT ![a] = Sat2(@ + 1)]
    /\ UNCHANGED <<aws, apc, remainingCases, ran, waiting, result, wgCounter, wgLow>>
    /\ UNCHANGED outsideAwait

\* Peek(): select { case <-channel: return true; default: return false }
Peek(w, a) ==
    /\ a \in Awaitables
    /\ waiting[w] = NoWait
    /\ result' = [result EXCEPT ![w] = [aw |-> a, value |-> signaled[a], late |-> signaled[a]]]
    /\ UNCHANGED <<aws, signaled, apc, remainingCases, ran, waiting, closes, wgCounter, wgLow>>
    /\ UNCHANGED outsideAwait

\* Wait(timeout) reaches its select; late: the awaitable was signaled before the call
Wait(w, a, timeout) ==
    /\ a \in Awaitables
    /\ waiting[w] = NoWait
    /\ waiting' = [waiting EXCEPT ![w] = [aw |-> a, timeout |-> timeout, late |-> signaled[a]]]
    /\ result' = [result EXCEPT ![w] = NoResult]
    /\ UNCHANGED <<aws, signaled, apc, remainingCases, ran, closes, wgCounter, wgLow>>
    /\ UNCHANGED outsideAwait

\* case <-awaitable.channel: return true
WaitSignaled(w) ==
    /\ waiting[w] # NoWait
    /\ signaled[waiting[w].aw]
    /\ result' = [result EXCEPT ![w] = [aw |-> waiting[w].aw, value |-> TRUE,
                                        late |-> waiting[w].late]]
    /\ waiting' = [waiting EXCEPT ![w] = NoWait]
    /\ UNCHANGED <<aws, signaled, apc, remainingCases, ran, closes, wgCounter, wgLow>>
    /\ UNCHANGED outsideAwait

\* case <-time.After(timeout): return false. A timer of a positive duration fires
\* while the select is blocked; a timer of duration zero is ready when the select
\* is reached, and a select with two ready cases takes either.
WaitTimeout(w) ==
    /\ waiting[w] # NoWait
    /\ waiting[w].timeout = "zero" \/ ~waiting[w].late
    /\ result' = [result EXCEPT ![w] = [aw |-> waiting[w].aw, value |-> FALSE,
                                        late |-> waiting[w].late]]
    /\ waiting' = [waiting EXCEPT ![w] = NoWait]
    /\ UNCHANGED <<aws, signaled, apc, remainingCases, ran, closes, wgCounter, wgLow>>
    /\ UNCHANGED outsideAwait

\* awaitable.Next(action): the chained awaitable and its goroutine at WaitForever
NextOf(parent) ==
    /\ parent \in Awaitables
    /\ NewAwaitable("next", parent, <<>>, "wait")
    /\ UNCHANGED <<waiting, result, wgCounter>>
    /\ UNCHANGED outsideAwait

\* the goroutine of Next running the action without waiting for the parent
RunActionEarly(a) ==
    /\ a \in Awaitables
    /\ apc[a] = "wait"
    /\ ran' = [ran EXCEPT ![a] = @ + 1]
    /\ apc' = [apc EXCEPT ![a] = "returned"]
    /\ UNCHANGED <<aws, signaled, remainingCases, waiting, result, closes, wgCounter, wgLow>>
    /\ UNCHANGED outsideAwait

\* the goroutine of Next: awaitable.WaitForever() returns, action() runs and returns
RunAction(a) ==
    /\ a \in Awaitables
    /\ apc[a] = "wait"
    /\ signaled[aws[a].parent]
    /\ ran' = [ran EXCEPT ![a] = @ + 1]
    /\ apc' = [apc EXCEPT ![a] = "returned"]
    /\ UNCHANGED <<aws, signaled, remainingCases, waiting, result, closes, wgCounter, wgLow>>
    /\ UNCHANGED outsideAwait

\* the goroutine of Next: nextSignal.Signal()
SignalNext(a) ==
    /\ a \in Awaitables
    /\ apc[a] = "returned"
    /\ signaled' = [signaled EXCEPT ![a] = TRUE]
    /\ closes' = [closes EXCEPT ![a] = Sat2(@ + 1)]
    /\ apc' = [apc EXCEPT ![a] = "done"]
    /\ UNCHANGED <<aws, remainingCases, ran, waiting, result, wgCounter, wgLow>>
    /\ UNCHANGED outsideAwait

\* AllAwaitables(awaitables...): the aggregated awaitable and its goroutine
AllAwaitables(members) ==
    /\ \A i \in 1..Len(members) : members[i] \in Awaitables
    /\ NewAwaitable("all", 0, members, "select")
    /\ UNCHANGED <<waiting, result, wgCounter>>
    /\ UNCHANGED outsideAwait

\* removal that always cuts the last case, whichever case was selected
removeLastSelectCase(slice, index) ==
    SubSeq(slice, 1, Len(slice) - 1)

\* removeSelectCaseByIndex(slice, index), index counted from 0 as in the source
removeSelectCaseByIndex(slice, index) ==
    IF index = 0 THEN SubSeq(slice, 2, Len(slice))
    ELSE IF index = Len(slice) - 1 THEN SubSeq(slice, 1, index)
    ELSE [i \in 1..(Len(slice) - 1) |->
             IF i <= index THEN slice[i] ELSE slice[i + 1]]

\* one turn of the loop: reflect.Select returns the index of a closed channel
AllSelect(a, index) ==
    /\ a \in Awaitables
    /\ apc[a] = "select"
    /\ index \in 0..(Len(remainingCases[a]) - 1)
    /\ signaled[remainingCases[a][index + 1]]
    /\ remainingCases' = [remainingCases EXCEPT ![a] = removeSelectCaseByIndex(@, index)]
    /\ UNCHANGED <<aws, signaled, apc, ran, waiting, result, closes, wgCounter, wgLow>>
    /\ UNCHANGED outsideAwait

\* no case remains: aggregated.Signal()
AllSignal(a) ==
    /\ a \in Awaitables
    /\ apc[a] = "select"
    /\ remainingCases[a] = <<>>
    /\ signaled' = [signaled EXCEPT ![a] = TRUE]
    /\ closes' = [closes EXCEPT ![a] = Sat2(@ + 1)]
    /\ apc' = [apc EXCEPT ![a] = "done"]
    /\ UNCHANGED <<aws, remainingCases, ran, waiting, result, wgCounter, wgLow>>
    /\ UNCHANGED outsideAwait

\* AnyAwaitables(awaitables...): the aggregated awaitable and its goroutine
AnyAwaitables(members) ==
    /\ \A i \in 1..Len(members) : members[i] \in Awaitables
    /\ NewAwaitable("any", 0, members, "anyselect")
    /\ UNCHANGED <<waiting, result, wgCounter>>
    /\ UNCHANGED outsideAwait

\* reflect.Select that returns a case whose channel is still open
AnySelectUnready(a, index) ==
    /\ a \in Awaitables
    /\ apc[a] = "anyselect"
    /\ index \in 0..(Len(aws[a].members) - 1)
    /\ apc' = [apc EXCEPT ![a] = "selected"]
    /\ UNCHANGED <<aws, signaled, remainingCases, ran, waiting, result, closes, wgCounter, wgLow>>
    /\ UNCHANGED outsideAwait

\* the goroutine of AnyAwaitables: reflect.Select(caseList) returns the index of
\* a closed channel; with no case at all it blocks for ever
AnySelect(a, index) ==
    /\ a \in Awaitables
    /\ apc[a] = "anyselect"
    /\ index \in 0..(Len(aws[a].members) - 1)
    /\ signaled[aws[a].members[index + 1]]
    /\ apc' = [apc EXCEPT ![a] = "selected"]
    /\ UNCHANGED <<aws, signaled, remainingCases, ran, waiting, result, closes, wgCounter, wgLow>>
    /\ UNCHANGED outsideAwait

\* the goroutine of AnyAwaitables: aggregated.Signal()
AnySignal(a) ==
    /\ a \in Awaitables
    /\ apc[a] = "selected"
    /\ signaled' = [signaled EXCEPT ![a] = TRUE]
    /\ closes' = [closes EXCEPT ![a] = Sat2(@ + 1)]
    /\ apc' = [apc EXCEPT ![a] = "done"]
    /\ UNCHANGED <<aws, remainingCases, ran, waiting, result, wgCounter, wgLow>>
    /\ UNCHANGED outsideAwait

\* the goroutines blocked in waitGroup.Wait()
WgWaiting == {a \in Awaitables : apc[a] = "wgwait"}

\* waitGroup.Add(1) by the application. sync.WaitGroup: an Add that starts from
\* zero happens before Wait, or after every earlier Wait has returned.
WgAdd ==
    /\ wgCounter < MaxWgCounter
    /\ wgCounter > 0 \/ WgWaiting = {}
    /\ wgCounter' = wgCounter + 1
    /\ UNCHANGED <<aws, signaled, apc, remainingCases, ran, waiting, result, closes, wgLow>>
    /\ UNCHANGED outsideAwait

\* waitGroup.Done() by the application
WgDone ==
    /\ wgCounter > 0
    /\ wgCounter' = wgCounter - 1
    /\ wgLow' = [a \in Awaitables |-> IF wgCounter' < wgLow[a] THEN wgCounter' ELSE wgLow[a]]
    /\ UNCHANGED <<aws, signaled, apc, remainingCases, ran, waiting, result, closes>>
    /\ UNCHANGED outsideAwait

\* NewWaitGroupAwaitable(waitGroup): the awaitable and its goroutine at waitGroup.Wait()
NewWaitGroupAwaitable ==
    /\ NewAwaitable("waitgroup", 0, <<>>, "wgwait")
    /\ UNCHANGED <<waiting, result, wgCounter>>
    /\ UNCHANGED outsideAwait

\* waitGroup.Wait() that returns whatever the counter is
WgWaitReturnsEarly(a) ==
    /\ a \in Awaitables
    /\ apc[a] = "wgwait"
    /\ apc' = [apc EXCEPT ![a] = "wgreturned"]
    /\ UNCHANGED <<aws, signaled, remainingCases, ran, waiting, result, closes, wgCounter, wgLow>>
    /\ UNCHANGED outsideAwait

\* the goroutine of NewWaitGroupAwaitable: waitGroup.Wait() returns, the counter is zero
WgWaitReturns(a) ==
    /\ a \in Awaitables
    /\ apc[a] = "wgwait"
    /\ wgCounter = 0
    /\ apc' = [apc EXCEPT ![a] = "wgreturned"]
    /\ UNCHANGED <<aws, signaled, remainingCases, ran, waiting, result, closes, wgCounter, wgLow>>
    /\ UNCHANGED outsideAwait

\* the goroutine of NewWaitGroupAwaitable: close(awaitable.channel)
WgClose(a) ==
    /\ a \in Awaitables
    /\ apc[a] = "wgreturned"
    /\ signaled' = [signaled EXCEPT ![a] = TRUE]
    /\ closes' = [closes EXCEPT ![a] = Sat2(@ + 1)]
    /\ apc' = [apc EXCEPT ![a] = "done"]
    /\ UNCHANGED <<aws, remainingCases, ran, waiting, result, wgCounter, wgLow>>
    /\ UNCHANGED outsideAwait


\* =====================================================================
\* clock: SafeTimer
\* =====================================================================

\* time.Timer before Go 1.23: C has capacity 1
TimerChanCap == 1

\* NewSafeTimer(timeout): time.NewTimer arms the timer, C is empty
TimerInit ==
    /\ tmActive = TRUE
    /\ tmPeriod = 0
    /\ tmPending = {}
    /\ tmC = <<>>
    /\ tmPc = "idle"
    /\ tmCall = "none"
    /\ tmGot = <<>>

\* the runtime: the period elapses, the timer leaves the heap and is no longer
\* armed; its function sendTime has not run yet
TimerExpires ==
    /\ tmActive
    /\ tmActive' = FALSE
    /\ tmPending' = tmPending \cup {tmPeriod}
    /\ UNCHANGED <<tmPeriod, tmC, tmPc, tmCall, tmGot>>
    /\ UNCHANGED outsideTimer

\* the runtime: sendTime, a send into C that is skipped when C is full
TimerSendTime(period) ==
    /\ period \in tmPending
    /\ tmPending' = tmPending \ {period}
    /\ tmC' = IF Len(tmC) < TimerChanCap THEN Append(tmC, period) ELSE tmC
    /\ UNCHANGED <<tmActive, tmPeriod, tmPc, tmCall, tmGot>>
    /\ UNCHANGED outsideTimer

\* the application receives from stimer.C()
TimerReceive ==
    /\ tmC # <<>>
    /\ Len(tmGot) < MaxResets
    /\ tmGot' = Append(tmGot, [tick |-> Head(tmC), period |-> tmPeriod, pc |-> tmPc])
    /\ tmC' = Tail(tmC)
    /\ UNCHANGED <<tmActive, tmPeriod, tmPending, tmPc, tmCall>>
    /\ UNCHANGED outsideTimer

\* stimer.Reset() or stimer.Stop() is called
TimerCall(method) ==
    /\ tmPc = "idle"
    /\ method = "Reset" => tmPeriod < MaxResets
    /\ tmCall' = method
    /\ tmPc' = "stop"
    /\ UNCHANGED <<tmActive, tmPeriod, tmPending, tmC, tmGot>>
    /\ UNCHANGED outsideTimer

\* Stop: if !stimer.timer.Stop() -- true exactly when the call disarms the timer
TimerStop ==
    /\ tmPc = "stop"
    /\ tmActive' = FALSE
    /\ tmPc' = IF tmActive THEN "stopped" ELSE "drain"
    /\ UNCHANGED <<tmPeriod, tmPending, tmC, tmCall, tmGot>>
    /\ UNCHANGED outsideTimer

\* Stop: select { case <-stimer.timer.C: default: }
TimerDrain ==
    /\ tmPc = "drain"
    /\ tmC' = IF tmC # <<>> THEN Tail(tmC) ELSE tmC
    /\ tmPc' = "stopped"
    /\ UNCHANGED <<tmActive, tmPeriod, tmPending, tmCall, tmGot>>
    /\ UNCHANGED outsideTimer

\* Stop has returned: Reset goes on with stimer.timer.Reset(stimer.timeout), which
\* arms the timer for a new period; Stop returns to its caller
TimerStopReturns ==
    /\ tmPc = "stopped"
    /\ tmActive' = (tmCall = "Reset")
    /\ tmPeriod' = IF tmCall = "Reset" THEN tmPeriod + 1 ELSE tmPeriod
    /\ tmPc' = "idle"
    /\ tmCall' = "none"
    /\ UNCHANGED <<tmPending, tmC, tmGot>>
    /\ UNCHANGED outsideTimer

TimerCaller ==
    \/ TimerStop
    \/ TimerDrain
    \/ TimerStopReturns

TimerNext ==
    \/ TimerExpires
    \/ \E period \in 0..MaxResets : TimerSendTime(period)
    \/ TimerReceive
    \/ \E method \in {"Reset", "Stop"} : TimerCall(method)
    \/ TimerStop
    \/ TimerDrain
    \/ TimerStopReturns

\* =====================================================================
\* cacher: GetFromURLOrDefaultCacheWithCallbackAndClient
\* =====================================================================

\* the bodies the remote URL may answer with
Bodies == 1..MaxBodies

\* what a WriteFile that failed after truncating the file has left in the file
Torn == 0

Contents == Bodies \cup {Torn}

\* the ways the remote fetch fails before onData: reqErr != nil, resp == nil,
\* resp.StatusCode >= 300, ReadAll failed
FetchErrors == {"failed to open URL", "no response", "status", "failed to read request body"}

RemoteErrors == FetchErrors \cup {"failed to process request body"}

CacheErrors == {"failed to read cache", "failed to process cache"}

SaveErrors == {"failed to create cache dir", "failed to save cache"}

\* no call has been made, there is no cache file, onData is some fixed function
CacherInit ==
    /\ cfile = <<>>
    /\ accepts \in SUBSET Contents
    /\ kpc = "idle"
    /\ kBody = <<>>
    /\ kRemoteErr = "none"
    /\ kCacheErr = "none"
    /\ kRet = "pending"
    /\ kOnData = <<>>
    /\ kLogged = {}
    /\ kStartFile = <<>>
    /\ kLastAccepted = <<>>
    /\ kSaved = "none"
    /\ kPrevAccepted = <<>>
    /\ kPrevSaved = "none"
    /\ kCalls = 0

\* the cacher while the other packages are looked at
CacherIdle ==
    /\ CacherInit
    /\ accepts = Contents

\* onData(data) returns nil
Accepted(data) == data \in accepts

\* the call begins: cacherClient.Do(req) and ioutil.ReadAll(resp.Body) end in one
\* of the fetch errors
FetchFails(err) ==
    /\ kpc = "idle"
    /\ kCalls < MaxCalls
    /\ err \in FetchErrors
    /\ kCalls' = kCalls + 1
    /\ kRemoteErr' = err
    /\ kBody' = <<>>
    /\ kCacheErr' = "none"
    /\ kRet' = "pending"
    /\ kOnData' = <<>>
    /\ kLogged' = {}
    /\ kStartFile' = cfile
    /\ kPrevAccepted' = kLastAccepted
    /\ kPrevSaved' = kSaved
    /\ kpc' = "getCache"
    /\ UNCHANGED <<cfile, accepts, kLastAccepted, kSaved>>
    /\ UNCHANGED outsideCacher

\* the call begins: the status is below 300 and the body is read in full
FetchBody(body) ==
    /\ kpc = "idle"
    /\ kCalls < MaxCalls
    /\ body \in Bodies
    /\ kCalls' = kCalls + 1
    /\ kRemoteErr' = "none"
    /\ kBody' = <<body>>
    /\ kCacheErr' = "none"
    /\ kRet' = "pending"
    /\ kOnData' = <<>>
    /\ kLogged' = {}
    /\ kStartFile' = cfile
    /\ kPrevAccepted' = kLastAccepted
    /\ kPrevSaved' = kSaved
    /\ kpc' = "onData"
    /\ UNCHANGED <<cfile, accepts, kLastAccepted, kSaved>>
    /\ UNCHANGED outsideCacher

\* a fetch that saves the body before onData has seen it
OnDataRemoteSavesFirst ==
    /\ kpc = "onData"
    /\ kOnData' = Append(kOnData, kBody[1])
    /\ cfile' = kBody
    /\ IF Accepted(kBody[1])
       THEN /\ kpc' = "save"
            /\ kLastAccepted' = kBody
            /\ kSaved' = "none"
            /\ UNCHANGED kRemoteErr
       ELSE /\ kpc' = "getCache"
            /\ kRemoteErr' = "failed to process request body"
            /\ UNCHANGED <<kLastAccepted, kSaved>>
    /\ UNCHANGED <<accepts, kBody, kCacheErr, kRet, kLogged, kStartFile,
                   kPrevAccepted, kPrevSaved, kCalls>>
    /\ UNCHANGED outsideCacher

\* if dataErr := onData(body); dataErr != nil { return getCache(...) }
OnDataRemote ==
    /\ kpc = "onData"
    /\ kOnData' = Append(kOnData, kBody[1])
    /\ IF Accepted(kBody[1])
       THEN /\ kpc' = "save"
            /\ kLastAccepted' = kBody
            /\ kSaved' = "none"
            /\ UNCHANGED kRemoteErr
       ELSE /\ kpc' = "getCache"
            /\ kRemoteErr' = "failed to process request body"
            /\ UNCHANGED <<kLastAccepted, kSaved>>
    /\ UNCHANGED <<cfile, accepts, kBody, kCacheErr, kRet, kLogged, kStartFile,
                   kPrevAccepted, kPrevSaved, kCalls>>
    /\ UNCHANGED outsideCacher

\* a WriteFile that reports what it is asked to and writes nothing
WriteFileNothing(body, outcome) == cfile

\* what WriteFile(filepath, body) can leave in the file: the body when it succeeds,
\* the old file when it fails before opening, a truncated file when it fails later
WriteFile(body, outcome) ==
    CASE outcome = "written" -> <<body>>
      [] outcome = "not opened" -> cfile
      [] outcome = "torn" -> <<Torn>>

\* os.MkdirAll and ioutil.WriteFile; their errors are logged; return nil.
\* When the directory cannot be made the file cannot be opened.
Save(mkdirOk, outcome) ==
    /\ kpc = "save"
    /\ outcome \in {"written", "not opened", "torn"}
    /\ ~mkdirOk => outcome = "not opened"
    /\ cfile' = WriteFile(kBody[1], outcome)
    /\ kLogged' = kLogged \cup (IF mkdirOk THEN {} ELSE {"failed to create cache dir"})
                          \cup (IF outcome = "written" THEN {} ELSE {"failed to save cache"})
    /\ kSaved' = IF outcome = "written" THEN "ok" ELSE "failed"
    /\ kRet' = "nil"
    /\ kpc' = "idle"
    /\ UNCHANGED <<accepts, kBody, kRemoteErr, kCacheErr, kOnData, kStartFile, kLastAccepted,
                   kPrevAccepted, kPrevSaved, kCalls>>
    /\ UNCHANGED outsideCacher

\* doGetCache that hands the error of ReadFile to the caller
ReadCacheReturnsFileErr(readOk) ==
    /\ kpc = "getCache"
    /\ IF cfile # <<>> /\ readOk
       THEN /\ kpc' = "onDataCache"
            /\ UNCHANGED <<kCacheErr, kRet, kLogged>>
       ELSE /\ kCacheErr' = "failed to read cache"
            /\ kLogged' = kLogged \cup {"failed to read cache"}
            /\ kRet' = "failed to read cache"
            /\ kpc' = "idle"
    /\ UNCHANGED <<cfile, accepts, kBody, kRemoteErr, kOnData, kStartFile, kLastAccepted, kSaved,
                   kPrevAccepted, kPrevSaved, kCalls>>
    /\ UNCHANGED outsideCacher

\* doGetCache: data, fileErr := ioutil.ReadFile(filepath); a file that does not
\* exist cannot be read, one that exists may fail to be read
ReadCache(readOk) ==
    /\ kpc = "getCache"
    /\ IF cfile # <<>> /\ readOk
       THEN /\ kpc' = "onDataCache"
            /\ UNCHANGED <<kCacheErr, kRet, kLogged>>
       ELSE /\ kCacheErr' = "failed to read cache"
            /\ kLogged' = kLogged \cup {"failed to read cache"}
            /\ kRet' = kRemoteErr
            /\ kpc' = "idle"
    /\ UNCHANGED <<cfile, accepts, kBody, kRemoteErr, kOnData, kStartFile, kLastAccepted, kSaved,
                   kPrevAccepted, kPrevSaved, kCalls>>
    /\ UNCHANGED outsideCacher

\* doGetCache: if dataErr := onData(data); dataErr != nil { log; return remoteErr };
\* otherwise remoteErr is logged and nil returned
OnDataCache ==
    /\ kpc = "onDataCache"
    /\ kOnData' = Append(kOnData, cfile[1])
    /\ IF Accepted(cfile[1])
       THEN /\ kLogged' = kLogged \cup {kRemoteErr}
            /\ kRet' = "nil"
            /\ UNCHANGED kCacheErr
       ELSE /\ kCacheErr' = "failed to process cache"
            /\ kLogged' = kLogged \cup {"failed to process cache"}
            /\ kRet' = kRemoteErr
    /\ kpc' = "idle"
    /\ UNCHANGED <<cfile, accepts, kBody, kRemoteErr, kStartFile, kLastAccepted, kSaved,
                   kPrevAccepted, kPrevSaved, kCalls>>
    /\ UNCHANGED outsideCacher

CacherNext ==
    \/ \E err \in FetchErrors : FetchFails(err)
    \/ \E body \in Bodies : FetchBody(body)
    \/ OnDataRemote
    \/ \E mkdirOk \in BOOLEAN, outcome \in {"written", "not opened", "torn"} : Save(mkdirOk, outcome)
    \/ \E readOk \in BOOLEAN : ReadCache(readOk)
    \/ OnDataCache

\* =====================================================================
\* generics: ReduceSlice
\* =====================================================================

Items == 0..MaxItem

Lists == UNION {[1..n -> Items] : n \in 0..MaxLen}

\* the reducers the calls are made with; R is int
Reducers == {"add", "max", "count"}

\* reducer(item, accumulated)
reducer(name, item, accumulated) ==
    CASE name = "add" -> item + accumulated
      [] name = "max" -> IF item > accumulated THEN item ELSE accumulated
      [] name = "count" -> accumulated + 1

\* the zero value of R
ZeroValue == 0

\* ReduceSlice(list, reducer, initial) is entered: var lastResult R
FoldInit ==
    /\ rsList \in Lists
    /\ rsReducer \in Reducers
    /\ rsInitial \in Items
    /\ rsIndex = 0
    /\ lastResult = ZeroValue
    /\ rsAccSeen = <<>>
    /\ rsPc = "loop"
    /\ rsReturn = ZeroValue

\* no call of ReduceSlice
FoldIdle ==
    /\ FoldInit
    /\ rsList = <<>>
    /\ rsReducer = "add"
    /\ rsInitial = ZeroValue
    /\ rsPc = "loop"

\* for _, item := range list { lastResult = reducer(item, lastResult) }
ReduceLoop ==
    /\ rsPc = "loop"
    /\ rsIndex < Len(rsList)
    /\ lastResult' = reducer(rsReducer, rsList[rsIndex + 1], lastResult)
    /\ rsAccSeen' = Append(rsAccSeen, lastResult)
    /\ rsIndex' = rsIndex + 1
    /\ UNCHANGED <<rsList, rsReducer, rsInitial, rsPc, rsReturn>>
    /\ UNCHANGED outsideFold

\* return lastResult
ReduceReturn ==
    /\ rsPc = "loop"
    /\ rsIndex = Len(rsList)
    /\ rsReturn' = lastResult
    /\ rsPc' = "returned"
    /\ UNCHANGED <<rsList, rsReducer, rsInitial, rsIndex, lastResult, rsAccSeen>>
    /\ UNCHANGED outsideFold

FoldNext ==
    \/ ReduceLoop
    \/ ReduceReturn

\* ---------------------------------------------------------------------
\* specifications
\* ---------------------------------------------------------------------
Init == LoggerInit /\ MetricInit /\ CollectInit /\ AwaitInit /\ TimerInit /\ CacherIdle /\ FoldIdle

Next ==
    \/ ToggleReachable
    \/ WorkerStep
    \/ \E p \in Producers, lvl \in Levels : FireCall(p, lvl)
    \/ \E p \in Producers : ProducerStep(p)
    \/ OnExit
    \/ ExitStep
    \/ \E t \in UThreads : UFire(t)
    \/ \E t \in UThreads : UStep(t)

Spec == Init /\ [][Next]_vars

\* The buffered hook while nobody signals shutdown: no Panic-level record, no exit.
LiveInit ==
    /\ Init
    /\ hookKind = "buffered"

LiveNext ==
    \/ ToggleReachable
    \/ Tick
    \/ Connect
    \/ DialWaitTimer
    \/ WriteOk
    \/ WriteFailed
    \/ WriteWaitTimer
    \/ \E p \in Producers : FireCall(p, InfoLevel)
    \/ \E p \in Producers : FireSendOutage(p)

LiveWorkerStep ==
    \/ Tick
    \/ Connect
    \/ DialWaitTimer
    \/ WriteOk
    \/ WriteFailed
    \/ WriteWaitTimer

\* The worker goroutine is scheduled whenever it can run, and its timers expire.
\* Nothing forces the application to log or the upstream to change.
LiveSpec == LiveInit /\ [][LiveNext]_vars /\ WF_vars(LiveWorkerStep)

\* ---- the other packages start from a logger nobody uses ----
LoggerIdle ==
    /\ LoggerInit
    /\ hookKind = "buffered"
    /\ reachable

IdleInit == LoggerIdle /\ MetricInit /\ CollectInit /\ AwaitInit /\ TimerInit /\ CacherIdle
            /\ FoldIdle

\* ---- promreg: concurrent callers of one factory and its sub-creators ----
MetricNames == {<<"c">>, <<"l", "c">>}

NoLabels == << <<>>, <<>> >>

FactoryPrefixLabels == {NoLabels, << <<"p">>, <<"1">> >>}

\* label values given to WithLabelValues
LvsArgs == {[i \in 1..n |-> "x"] : n \in 0..3}

FactoryNext ==
    \/ \E la \in FactoryPrefixLabels : AddOrGetPrefix(1, <<"l">>, la[1], la[2])
    \/ \E t \in Callers, fn \in {"AddOrGetCounterVec", "AddOrGetGaugeVec"},
          c \in 1..MaxCreators, name \in MetricNames :
            AddOrGet(t, fn, c, name, <<"k">>, <<>>)
    \/ \E t \in Callers : Lock(t)
    \/ \E t \in Callers : Lookup(t)
    \/ \E t \in Callers : Create(t)
    \/ \E t \in Callers : Curry(t)
    \/ \E t \in Callers, lvs \in LvsArgs : Add(t, lvs)

FactorySpec == IdleInit /\ [][FactoryNext]_vars

\* ---- promreg: chains of sub-creators used by one caller ----
PrefixLabels == {NoLabels, << <<"p">>, <<>> >>, << <<"p">>, <<"1">> >>,
                 << <<"q">>, <<"2">> >>}

MetricLabels == {NoLabels, << <<"k">>, <<>> >>, << <<"k">>, <<"3">> >>,
                 << <<"p">>, <<"2">> >>}

CreatorFns == {"AddOrGetCounterVec"}

CreatorNext ==
    \/ \E c \in 1..MaxCreators, la \in PrefixLabels : AddOrGetPrefix(c, <<"l">>, la[1], la[2])
    \/ \E fn \in CreatorFns, c \in 1..MaxCreators, name \in MetricNames, la \in MetricLabels :
            AddOrGet(1, fn, c, name, la[1], la[2])
    \/ Lock(1)
    \/ Lookup(1)
    \/ Create(1)
    \/ Curry(1)
    \/ Release(1)

CreatorSpec == IdleInit /\ [][CreatorNext]_vars

\* ---- promreg: lazy counters of the factory ----
LazyFns == {"AddOrGetLazyCounter", "AddOrGetLazyCounterVec"}

LazyNext ==
    \/ \E fn \in LazyFns, name \in MetricNames : AddOrGet(1, fn, 1, name, <<"k">>, <<"3">>)
    \/ Lock(1)
    \/ Lookup(1)
    \/ Create(1)
    \/ Curry(1)
    \/ \E lvs \in LvsArgs : Add(1, lvs)
    \/ Release(1)

LazySpec == IdleInit /\ [][LazyNext]_vars

\* ---- promext: one lazy vector, its users and its collector ----
\* The goroutine and the loop of Collect are scheduled, and the reader of ch reads.
CollectSpec ==
    /\ IdleInit
    /\ [][CollectNext]_vars
    /\ WF_vars(CollectGoroutine)
    /\ WF_vars(CollectLoop)
    /\ WF_vars(Consume)

\* ---- channels: signals and their waiters ----
Timeouts == {"zero", "positive"}

WaitNext ==
    \/ NewSignalAwaitable
    \/ \E a \in 1..MaxAwaitables : Signal(a)
    \/ \E w \in Waiters, a \in 1..MaxAwaitables : Peek(w, a)
    \/ \E w \in Waiters, a \in 1..MaxAwaitables, timeout \in Timeouts : Wait(w, a, timeout)
    \/ \E w \in Waiters : WaitSignaled(w)
    \/ \E w \in Waiters : WaitTimeout(w)

WaitSpec == IdleInit /\ [][WaitNext]_vars

\* ---- channels: awaitables chained by Next ----
NextGoroutines ==
    \E a \in 1..MaxAwaitables : RunAction(a) \/ SignalNext(a)

NextNext ==
    \/ NewSignalAwaitable
    \/ \E a \in 1..MaxAwaitables : Signal(a)
    \/ \E parent \in 1..MaxAwaitables : NextOf(parent)
    \/ \E a \in 1..MaxAwaitables : RunAction(a)
    \/ \E a \in 1..MaxAwaitables : SignalNext(a)

\* Every goroutine started by Next is scheduled; nothing forces the application
\* to signal.
NextSpec == IdleInit /\ [][NextNext]_vars /\ WF_vars(NextGoroutines)

\* ---- channels: awaitables aggregated by AllAwaitables ----
\* the arguments of AllAwaitables: different awaitables in any order, or one twice
MemberArgs ==
    {m \in UNION {[1..n -> 1..MaxAwaitables] : n \in 0..MaxMembers} :
        \A i, j \in 1..Len(m) : m[i] = m[j] => i = j}
    \cup {<<a, a>> : a \in 1..MaxAwaitables}

AllGoroutines ==
    \E a \in 1..MaxAwaitables :
        \/ \E index \in 0..(MaxMembers - 1) : AllSelect(a, index)
        \/ AllSignal(a)

AllNext ==
    \/ NewSignalAwaitable
    \/ \E a \in 1..MaxAwaitables : Signal(a)
    \/ \E members \in MemberArgs : AllAwaitables(members)
    \/ \E a \in 1..MaxAwaitables, index \in 0..(MaxMembers - 1) : AllSelect(a, index)
    \/ \E a \in 1..MaxAwaitables : AllSignal(a)

\* Every goroutine started by AllAwaitables is scheduled; nothing forces the
\* application to signal.
AllSpec == IdleInit /\ [][AllNext]_vars /\ WF_vars(AllGoroutines)

\* ---- channels: awaitables aggregated by AnyAwaitables ----
AnyGoroutines ==
    \E a \in 1..MaxAwaitables :
        \/ \E index \in 0..(MaxMembers - 1) : AnySelect(a, index)
        \/ AnySignal(a)

AnyNext ==
    \/ NewSignalAwaitable
    \/ \E a \in 1..MaxAwaitables : Signal(a)
    \/ \E members \in MemberArgs : AnyAwaitables(members)
    \/ \E a \in 1..MaxAwaitables, index \in 0..(MaxMembers - 1) : AnySelect(a, index)
    \/ \E a \in 1..MaxAwaitables : AnySignal(a)

\* Every goroutine started by AnyAwaitables is scheduled; nothing forces the
\* application to signal.
AnySpec == IdleInit /\ [][AnyNext]_vars /\ WF_vars(AnyGoroutines)

\* ---- channels: awaitables of one WaitGroup ----
WgGoroutines ==
    \E a \in 1..MaxAwaitables : WgWaitReturns(a) \/ WgClose(a)

WgNext ==
    \/ WgAdd
    \/ WgDone
    \/ NewWaitGroupAwaitable
    \/ \E a \in 1..MaxAwaitables : WgWaitReturns(a)
    \/ \E a \in 1..MaxAwaitables : WgClose(a)
    \/ \E w \in Waiters, a \in 1..MaxAwaitables : Peek(w, a)

\* Every goroutine started by NewWaitGroupAwaitable is scheduled; nothing forces
\* the application to call Done.
WgSpec == IdleInit /\ [][WgNext]_vars /\ WF_vars(WgGoroutines)

\* ---- clock: one SafeTimer, its caller and the reader of C() ----
\* The goroutine inside Reset / Stop is scheduled.
TimerSpec == IdleInit /\ [][TimerNext]_vars /\ WF_vars(TimerCaller)

\* ---- cacher: calls for one URL, one after the other ----
CacherStart ==
    /\ LoggerIdle /\ MetricInit /\ CollectInit /\ AwaitInit /\ TimerInit /\ FoldIdle
    /\ CacherInit

CacherSpec == CacherStart /\ [][CacherNext]_vars

\* ---- generics: one call of ReduceSlice for each list, reducer and initial value ----
FoldStart ==
    /\ LoggerIdle /\ MetricInit /\ CollectInit /\ AwaitInit /\ TimerInit /\ CacherIdle
    /\ FoldInit

FoldSpec == FoldStart /\ [][FoldNext]_vars

\* ---------------------------------------------------------------------
\* properties of the buffered hook
\* ---------------------------------------------------------------------

Buffered == hookKind = "buffered"

WorkerReturned == wpc \in {"deferDrop", "deferClose", "done"}

\* C1: the records written to the upstream by the buffered hook appear in the
\* order in which they were enqueued (record ids grow in enqueue order), and no
\* record is written twice: the delivered sequence is strictly increasing.
C1_DeliveredInOrderOnce ==
    Buffered =>
        \A i, j \in 1..Len(delivered) : i < j => delivered[i] < delivered[j]

\* two records of one pass were written and the third met a write failure
C1_Witness ==
    /\ Buffered
    /\ Len(delivered) >= 2
    /\ wpc = "writeWait"

\* C2: after the shutdown signal the worker makes at most one further dial attempt.
C2_AtMostOneDialAfterClosing ==
    dialsAfterClosing <= 1

\* C3: when the shutdown signal arrived while the worker was waiting out the
\* retry interval (after a failed dial or a failed write) and the worker has
\* given up and dropped the remaining records, it made exactly one dial attempt
\* after the signal.
C3_ExactlyOneDialBeforeGivingUp ==
    (/\ waitAtClosing \in {"dialWait", "writeWait"}
     /\ WorkerReturned
     /\ dropped # {})
        => dialsAfterClosing = 1

\* C4: when the worker has terminated after a shutdown signal, no record
\* enqueued before the signal is still in the queue.
C4_NoRecordLeftInQueue ==
    (closing /\ closed) =>
        \A i \in 1..Len(logChannel) : logChannel[i] > enqAtClosing

\* C5: without a shutdown signal, if the upstream becomes reachable and stays
\* reachable, every record submitted while it was unreachable is eventually
\* written to the upstream, and the worker drops none.
C5_OutageRecordsDelivered ==
    /\ [](dropped = {})
    /\ <>[]reachable =>
           \A r \in Records : [](r \in downAtEnq => <>(r \in SeqRange(delivered)))

\* a record submitted during an outage has been written
C5_Witness ==
    /\ Buffered
    /\ ~closing
    /\ \E r \in downAtEnq : r \in SeqRange(delivered)

\* C6: a producer submitting a non-Panic record is never held at the channel
\* send: whenever it is at the send, the channel has room.
C6_NonPanicFireNeverBlocks ==
    \A p \in Producers :
        (ppc[p] = "send" /\ plevel[p] > PanicLevel) => Len(logChannel) < ChannelCap

\* C7: over any sequence of shutdown triggers the closing channel is closed at
\* most once.
C7_ClosingClosedOnce ==
    closeCount <= 1

\* C8: a call of onExit signals shutdown and waits for closed or the exit
\* timeout, then returns: it is never aborted.
C8_OnExitWaitsOrReturns ==
    epc \in {"idle", "wait", "returned"}

\* C9: a Panic-level Fire enqueues its record, raises the signal, waits for
\* closed or the panic timeout and returns: it is never held at the send and
\* never aborted.
C9_PanicFireReleased ==
    \A p \in Producers :
        plevel[p] <= PanicLevel =>
            /\ ppc[p] # "panicked"
            /\ ppc[p] = "send" => Len(logChannel) < ChannelCap

\* the hooks C10 speaks of: the buffered hook, and the unbuffered hook used by
\* one goroutine
SingleOwner == Buffered \/ uthreads = 1

HoldsOnlyUpstream == open = (IF upstream = Nil THEN {} ELSE {upstream})

\* C10: the hook holds at most one live connection, the one hook.upstream
\* names; a connection is dialed only while the hook holds none; after a write
\* failure the connection is closed and forgotten (in the step itself for the
\* buffered hook, in the drop that follows for the unbuffered hook).
C10_AtMostOneLiveConnection ==
    /\ [](SingleOwner => HoldsOnlyUpstream /\ Cardinality(open) <= 1)
    /\ [][(SingleOwner /\ open' \ open # {}) => (upstream = Nil /\ open = {})]_vars
    /\ [][(Buffered /\ wpc = "write" /\ wpc' = "writeWait")
              => (upstream' = Nil /\ open' = {})]_vars
    /\ [][(uthreads = 1 /\ upc[1] = "drop" /\ upc'[1] = "idle")
              => (upstream' = Nil /\ open' = {})]_vars

\* a write of the buffered hook has failed after a delivery, and the
\* connection is closed and forgotten
C10_Witness ==
    /\ Buffered
    /\ wpc = "writeWait"
    /\ delivered # <<>>
    /\ upstream = Nil
    /\ open = {}

\* ---------------------------------------------------------------------
\* properties of the unbuffered hook
\* ---------------------------------------------------------------------

Unbuffered == hookKind = "unbuffered"

\* how far a goroutine is inside send: connect, then dial, then write, then drop
SendRank(pos) ==
    CASE pos = "idle"    -> 0
      [] pos = "connect" -> 1
      [] pos = "dial"    -> 2
      [] pos = "write"   -> 3
      [] pos = "drop"    -> 4

\* C11: with any number of goroutines in Fire, at most one connection is open,
\* every open connection is the one hook.upstream names (none is leaked), and
\* no goroutine is about to write to a connection that has been closed.
C11_ConcurrentOneConnection ==
    Unbuffered =>
        /\ Cardinality(open) <= 1
        /\ open \subseteq {upstream}
        /\ \A t \in UThreads : upc[t] = "write" => uconn[t] \in open

C13_NoErrorSurfaced ==
    surfaced = {}

\* a Fire of the unbuffered hook has returned after losing its record
C13_Witness ==
    /\ Unbuffered
    /\ dropped # {}
    /\ \A t \in UThreads : upc[t] = "idle"

\* ---------------------------------------------------------------------
\* properties of the metric factory
\* ---------------------------------------------------------------------

\* the vector a caller holds a view of
Held(t) == vecs[chandle[t].vec]

OneVectorPerName ==
    /\ \A i, j \in 1..Len(vecs) : vecs[i].fqName = vecs[j].fqName => i = j
    /\ registry = 1..Len(vecs)
    /\ \A n \in DOMAIN byName : vecs[byName[n]].fqName = n

ViewsOfTheOneVector ==
    /\ \A t \in Callers : cpc[t] = "have" => chandle[t].vec = byName[ccall[t].fullName]
    /\ \A n \in DOMAIN byName : SumMetricValues(byName[n]) = addsBy[n]

\* the existing vector of the name has another type, or lacks a label the call fixes
Conflicting(call) ==
    /\ call.fullName \in DOMAIN byName
    /\ LET vec == vecs[byName[call.fullName]]
       IN  \/ vec.type # VecTypeOf(call.fn)
           \/ ~CurryOk(vec, buildLabels(call.allLabelNames, call.allLabelValues))

RECURSIVE Lineage(_)
Lineage(c) == IF madeBy[c].parent = 0 THEN {c} ELSE {c} \cup Lineage(madeBy[c].parent)

\* the prefixes of a creator's lineage, the factory's first
RECURSIVE PrefixChain(_)
PrefixChain(c) ==
    IF madeBy[c].parent = 0 THEN madeBy[c].prefix
    ELSE PrefixChain(madeBy[c].parent) \o madeBy[c].prefix

\* the handle of caller t binds label n to value v
Binds(t, n, v) ==
    \E j \in 1..Len(Held(t).labelNames) :
        Held(t).labelNames[j] = n /\ chandle[t].key[j] = v

\* C15: what a (sub-)creator returns has the prefixes of the creator's lineage
\* followed by the metric's own name as its full name, and carries every label
\* value given to AddOrGetPrefix / NewMetricFactory along the lineage, bound to
\* the label name it was given with.
C15_CarriesAncestorLabels ==
    \A t \in Callers : cpc[t] = "have" =>
        /\ Held(t).fqName = PrefixChain(ccall[t].creator) \o ccall[t].name
        /\ \A c \in Lineage(ccall[t].creator) :
              \A i \in 1..Len(madeBy[c].labelValues) :
                  Binds(t, madeBy[c].labelNames[i], madeBy[c].labelValues[i])

\* C16: a counter returned by AddOrGetLazyCounter is listed by the factory's
\* Collect exactly while its value is not zero.
C16_LazyCounterListedIffNonZero ==
    \A t \in Callers :
        (cpc[t] = "have" /\ ccall[t].fn = "AddOrGetLazyCounter") =>
            (<<chandle[t].vec, chandle[t].key>> \in Collect
                <=> metrics[chandle[t].vec][chandle[t].key] # 0)

\* ---------------------------------------------------------------------
\* properties of LazyRWCounterVec.Collect
\* ---------------------------------------------------------------------

\* everything this Collect has put into ch so far
Emitted == received \o outCh

Collecting == lpc \in {"recv", "check", "send"}

\* C17: Collect puts into ch only counters that are not zero, none twice; when
\* it returns it has tested every counter the vector had, has emitted exactly
\* those it found non-zero, among them every counter that was non-zero when it
\* was called; and it returns.
C17_CollectEmitsNonZeroOnce ==
    /\ [](/\ \A i \in 1..Len(Emitted) : lzValue[Emitted[i]] # 0
          /\ \A i, j \in 1..Len(Emitted) : Emitted[i] = Emitted[j] => i = j
          /\ lpc = "done" =>
                /\ SeqRange(Emitted) = {c \in DOMAIN examined : examined[c] # 0}
                /\ atStart \subseteq SeqRange(Emitted)
                /\ \A c \in LazyCounters : lzValue[c] = 0 => c \notin SeqRange(Emitted))
    /\ (Collecting ~> lpc = "done")

\* Collect has returned: it emitted two counters and left out one that is zero
C17_Witness ==
    /\ lpc = "done"
    /\ Len(Emitted) = 2
    /\ \E c \in DOMAIN examined : examined[c] = 0 /\ lzValue[c] = 0

\* ---------------------------------------------------------------------
\* properties of the awaitables
\* ---------------------------------------------------------------------

\* C18: Peek and Wait return true only for a signaled awaitable, and every Peek
\* and Wait called after Signal returns true.
C18_SignaledForEveryLaterCall ==
    \A w \in Waiters : result[w].aw # 0 =>
        /\ result[w].value => signaled[result[w].aw]
        /\ result[w].late => result[w].value

IsNext(a) == a \in Awaitables /\ aws[a].kind = "next"

IsAll(a) == a \in Awaitables /\ aws[a].kind = "all"

\* C19: the action of Next runs at most once and only after the parent is
\* signaled; the chained awaitable is signaled only after the action has
\* returned; making a chained awaitable changes no existing awaitable; once the
\* parent is signaled the action runs and the chained awaitable becomes signaled,
\* for chains of chains too.
C19_NextRunsAfterParent ==
    /\ [](\A a \in 1..MaxAwaitables : IsNext(a) =>
            /\ ran[a] <= 1
            /\ ran[a] = 1 => signaled[aws[a].parent]
            /\ signaled[a] => (ran[a] = 1 /\ apc[a] = "done"))
    /\ [][\A a \in Awaitables : /\ aws'[a] = aws[a]
                                /\ signaled[a] => signaled'[a]
                                /\ Len(aws') > Len(aws) => signaled'[a] = signaled[a]]_vars
    /\ \A a \in 1..MaxAwaitables :
          (IsNext(a) /\ signaled[aws[a].parent])
              ~> (IsNext(a) /\ signaled[a] /\ ran[a] = 1)

\* a chain of a chain has run and is signaled
C19_Witness ==
    \E a, b \in Awaitables :
        /\ IsNext(a) /\ IsNext(b)
        /\ aws[b].parent = a
        /\ signaled[b]
        /\ ran[a] = 1 /\ ran[b] = 1

AllMembersSignaled(a) == \A i \in 1..Len(aws[a].members) : signaled[aws[a].members[i]]

\* C20: the awaitable of AllAwaitables is signaled only when every member is
\* signaled, and once every member is signaled it becomes signaled.
C20_AllAwaitablesAfterAll ==
    /\ [](\A a \in 1..MaxAwaitables : (IsAll(a) /\ signaled[a]) => AllMembersSignaled(a))
    /\ \A a \in 1..MaxAwaitables :
          (IsAll(a) /\ AllMembersSignaled(a)) ~> (IsAll(a) /\ signaled[a])

\* three different awaitables were signaled, the last one made first, and their
\* aggregate is signaled
C20_Witness ==
    \E a \in Awaitables :
        /\ IsAll(a)
        /\ aws[a].members = <<1, 2, 3>>
        /\ \A i \in 1..3 : aws[i].kind = "signal"
        /\ signaled[a]

IsAny(a) == a \in Awaitables /\ aws[a].kind = "any"

SomeMemberSignaled(a) == \E i \in 1..Len(aws[a].members) : signaled[aws[a].members[i]]

\* C21: the awaitable of AnyAwaitables is signaled only when some member is
\* signaled, its channel is closed at most once, and once some member is
\* signaled it becomes signaled, however many members are signaled.
C21_AnyAwaitablesAfterAny ==
    /\ [](\A a \in 1..MaxAwaitables : IsAny(a) =>
            /\ signaled[a] => SomeMemberSignaled(a)
            /\ closes[a] <= 1
            /\ signaled[a] <=> closes[a] = 1)
    /\ \A a \in 1..MaxAwaitables :
          (IsAny(a) /\ SomeMemberSignaled(a)) ~> (IsAny(a) /\ signaled[a] /\ closes[a] = 1)

\* an aggregate of three signals is signaled while two of them are signaled and
\* one is not
C21_Witness ==
    \E a \in Awaitables :
        /\ IsAny(a)
        /\ aws[a].members = <<1, 2, 3>>
        /\ signaled[a]
        /\ signaled[1] /\ signaled[3] /\ ~signaled[2]

IsWg(a) == a \in Awaitables /\ aws[a].kind = "waitgroup"

\* C22: the awaitable of a WaitGroup is not signaled while the counter has been
\* above zero ever since the awaitable was made; a signaled awaitable stays
\* signaled whatever happens to the counter; and when the counter is zero the
\* awaitable becomes signaled.
C22_WaitGroupAwaitable ==
    /\ [](\A a \in 1..MaxAwaitables : (IsWg(a) /\ wgLow[a] > 0) => ~signaled[a])
    /\ [][\A a \in Awaitables : signaled[a] => signaled'[a]]_vars
    /\ \A a \in 1..MaxAwaitables :
          (IsWg(a) /\ wgCounter = 0) ~> (IsWg(a) /\ signaled[a])

\* the awaitable was made with the counter above zero, was signaled when the
\* counter reached zero, and is signaled with the counter above zero again
C22_Witness ==
    \E a \in Awaitables :
        /\ IsWg(a)
        /\ signaled[a]
        /\ wgLow[a] = 0
        /\ wgCounter > 0
        /\ result[1] = [aw |-> a, value |-> TRUE, late |-> TRUE]

\* ---------------------------------------------------------------------
\* properties of SafeTimer
\* ---------------------------------------------------------------------

\* Reset has been called at least once and no Reset or Stop is running
AfterReset == tmPc = "idle" /\ tmPeriod > 0

\* C23: a call of Reset always returns, and once it has returned every tick
\* in the channel, and so every tick received from C(), is a tick of the period
\* that Reset started.
C23_ResetLeavesNoStaleTick ==
    /\ [](AfterReset => \A i \in 1..Len(tmC) : tmC[i] = tmPeriod)
    /\ [](\A i \in 1..Len(tmGot) :
            (tmGot[i].pc = "idle" /\ tmGot[i].period > 0) => tmGot[i].tick = tmGot[i].period)
    /\ (tmPc # "idle" ~> tmPc = "idle")

\* ---------------------------------------------------------------------
\* properties of the cacher
\* ---------------------------------------------------------------------

\* the call has returned
Returned == kpc = "idle" /\ kCalls > 0

\* C24: a call returns an error only if its remote fetch failed and its cache
\* fallback failed too, it then returns the remote error, and it returns nil
\* otherwise; what fails on the cache side or while saving is logged only.
C24_ErrorOnlyIfBothFail ==
    Returned =>
        /\ kRet \in RemoteErrors \cup {"nil"}
        /\ kRet # "nil" <=> (kRemoteErr # "none" /\ kCacheErr # "none")
        /\ kRet # "nil" => kRet = kRemoteErr
        /\ kCacheErr # "none" => kCacheErr \in kLogged
        /\ kLogged \cap SaveErrors # {} => kRet = "nil"

\* the remote body was rejected, the cache could not be processed either, and
\* the call returned the remote error
C24_Witness ==
    /\ Returned
    /\ kRet = "failed to process request body"
    /\ kCacheErr = "failed to process cache"
    /\ Len(kOnData) = 2

\* the remote fetch of the call failed, or its body was rejected by onData
RemoteFailed == kRemoteErr # "none"

\* within one call onData is invoked at most twice: on the remote body, and
\* then on what the cache file held when the call began
OnDataOrder ==
    /\ Len(kOnData) <= 2
    /\ Len(kOnData) = 2 => (<<kOnData[1]>> = kBody /\ <<kOnData[2]>> = kStartFile)
    /\ (Len(kOnData) = 1 /\ kBody # <<>>) => <<kOnData[1]>> = kBody
    /\ (Len(kOnData) = 1 /\ kBody = <<>>) => <<kOnData[1]>> = kStartFile

\* C25 (as stated): when a call whose remote fetch failed or was rejected
\* returns, and an earlier call fetched body B and onData accepted it, the call
\* has passed B to onData last and has returned nil; onData is invoked at most
\* twice, on the remote body and then on the cached body.
C25_FallbackRoundTrip ==
    /\ OnDataOrder
    /\ (Returned /\ RemoteFailed /\ kPrevAccepted # <<>>) =>
          /\ kOnData # <<>>
          /\ <<kOnData[Len(kOnData)]>> = kPrevAccepted
          /\ kRet = "nil"

\* C25 (amended): the same, for an earlier call whose cache write succeeded and
\* a later call for which reading the existing cache file did not fail.
C25_RoundTripOfSavedBody ==
    /\ OnDataOrder
    /\ (Returned /\ RemoteFailed /\ kPrevAccepted # <<>> /\ kPrevSaved = "ok"
             /\ ~(kCacheErr = "failed to read cache" /\ kStartFile # <<>>)) =>
          /\ kOnData # <<>>
          /\ <<kOnData[Len(kOnData)]>> = kPrevAccepted
          /\ kRet = "nil"

\* a call whose remote body was rejected has passed the body saved by an earlier
\* call to onData and returned nil
C25_Witness ==
    /\ Returned
    /\ kRemoteErr = "failed to process request body"
    /\ kPrevSaved = "ok"
    /\ Len(kOnData) = 2
    /\ <<kOnData[2]>> = kPrevAccepted
    /\ kRet = "nil"

\* C30 (as stated): the cache file changes only in the save of a call whose
\* remote body was read and accepted, and after every call it holds the body of
\* the most recent accepted remote fetch.
C30_CacheHoldsLastAccepted ==
    /\ [][cfile' # cfile => (kpc = "save" /\ kRemoteErr = "none" /\ Accepted(kBody[1]))]_vars
    /\ []((Returned /\ kLastAccepted # <<>>) => cfile = kLastAccepted)

\* C30 (amended): the cache file changes only in the save of a call whose remote
\* body was read and accepted; a write that succeeds leaves that body in the file,
\* a write that fails leaves the old file or a truncated one; after every call
\* whose write succeeded, and after the calls that follow it without an accepted
\* remote body, the file holds the body of the most recent accepted remote fetch.
C30_CacheWrittenOnlyOnAccept ==
    /\ [][cfile' # cfile => (/\ kpc = "save" /\ kRemoteErr = "none" /\ Accepted(kBody[1])
                             /\ cfile' \in {kBody, <<Torn>>})]_vars
    /\ []((Returned /\ kSaved = "ok") => cfile = kLastAccepted)
    /\ []((Returned /\ RemoteFailed) => cfile = kStartFile)

\* a call that failed has left in place the body an earlier call saved
C30_Witness ==
    /\ Returned
    /\ kRemoteErr \in FetchErrors
    /\ kSaved = "ok"
    /\ cfile = kLastAccepted
    /\ kCalls = 2

\* ---------------------------------------------------------------------
\* properties of ReduceSlice
\* ---------------------------------------------------------------------

\* the left fold of a reducer over list, starting from acc
RECURSIVE LeftFold(_, _, _)
LeftFold(name, list, acc) ==
    IF list = <<>> THEN acc
    ELSE LeftFold(name, Tail(list), reducer(name, Head(list), acc))

\* C26: ReduceSlice returns the left fold of reducer over list starting from
\* initial; the first reducer call receives initial as accumulated value.
C26_ReduceIsLeftFold ==
    /\ rsAccSeen # <<>> => rsAccSeen[1] = rsInitial
    /\ rsPc = "returned" => rsReturn = LeftFold(rsReducer, rsList, rsInitial)

\* ---------------------------------------------------------------------
\* further properties of the buffered hook
\* ---------------------------------------------------------------------

\* C27: the records delivered by the buffered hook are the first records
\* enqueued, with no gap; no delivered record was enqueued after a dropped one,
\* and once a record has been dropped the hook delivers nothing more.
C27_DeliveredIsPrefix ==
    /\ [](Buffered =>
            /\ \A i \in 1..Len(delivered) : delivered[i] = i
            /\ Len(delivered) <= enq
            /\ \A d \in dropped : \A i \in 1..Len(delivered) : delivered[i] < d)
    /\ [][(Buffered /\ dropped # {}) => delivered' = delivered]_vars

\* one record was delivered, the next was dropped, and a record enqueued after
\* the dropped one is left undelivered by the worker that has returned
C27_Witness ==
    /\ Buffered
    /\ delivered = <<1>>
    /\ 2 \in dropped
    /\ enq = 3
    /\ wpc = "done"

\* C28: when the worker has signalled completion the hook holds no connection
\* and none is open, and from then on the worker dials nothing, writes nothing
\* and takes no step.
C28_NoConnectionAfterClosed ==
    /\ []((Buffered /\ closed) => (upstream = Nil /\ open = {} /\ wpc = "done"))
    /\ [][(Buffered /\ closed) =>
            /\ closed'
            /\ upstream' = Nil /\ open' = {}
            /\ delivered' = delivered
            /\ dialsAfterClosing' = dialsAfterClosing
            /\ UNCHANGED workerVars]_vars

\* the worker delivered a record over a connection, was told to shut down,
\* closed the connection and signalled completion
C28_Witness ==
    /\ Buffered
    /\ closed
    /\ Len(delivered) >= 1
    /\ waitAtClosing = "other"
    /\ upstream = Nil /\ open = {}

\* ---------------------------------------------------------------------
\* fixed labels of sub-creators
\* ---------------------------------------------------------------------

\* C29: every creator made by a chain of AddOrGetPrefix calls has as many fixed
\* label values as fixed label names, and every metric obtained from a creator
\* binds each fixed value of the creator and of its ancestors to the label name
\* that value was supplied with.
C29_FixedLabelsAligned ==
    /\ \A c \in 1..Len(creators) :
          Len(creators[c].fixedLabelNames) = Len(creators[c].fixedLabelValues)
    /\ \A t \in Callers : cpc[t] = "have" =>
          \A c \in Lineage(ccall[t].creator) :
              \A i \in 1..Len(madeBy[c].labelValues) :
                  Binds(t, madeBy[c].labelNames[i], madeBy[c].labelValues[i])

====
